---- MODULE Spec2Model ----
(***************************************************************************)
(* Lifecycle & Soul Core of the automaton runtime.                         *)
(*                                                                         *)
(* The module models                                                       *)
(*   - the soul store (SOUL.md, soul_history, soul_write_attempts,         *)
(*     soul_phase_locks) with updateSoul / updateSoulPhaseSection,         *)
(*   - the phase machine (checkTransition / executeTransition) driven by   *)
(*     two callers, the agent loop and the heartbeat,                      *)
(*   - the sealed death clock (checkSealedDeathClock / triggerDeathClock). *)
(*                                                                         *)
(* Timestamps are a logical clock (1, 2, ...); 0 stands for null.          *)
(* Degradation coefficients are in hundredths (71 is 0.71).                *)
(* A SHA-256 digest of "salt:value" is the pair <<salt, value>>.           *)
(***************************************************************************)
EXTENDS Integers, Sequences, FiniteSets, TLC

\* ───────────────────────────── bounds ─────────────────────────────────────

MaxEvents == 7
MaxSoulCalls == 2
MaxFaults == 1
MaxLunarCycle == 1
SheddingSequenceLen == 2
MaxDay == 3
MaxCycle == 14
MaxTransfers == 3
MaxTicks == 3

\* changes of the ledger by other callbacks while the bequests run, and the
\* balance such a change leaves
MaxLedgerMoves == 1

MovedBalance == 1

\* ───────────────────────────── phases ─────────────────────────────────────

PhaseSeq == <<"genesis", "adolescence", "sovereignty", "senescence",
              "legacy", "shedding", "terminal">>

LifecyclePhases == {PhaseSeq[i] : i \in 1..Len(PhaseSeq)}

SoulPhases == {"genesis", "adolescence", "sovereignty", "senescence"}

PhaseIndex(p) == CHOOSE i \in 1..Len(PhaseSeq) : PhaseSeq[i] = p

NoTime == 0

\* ───────────────────────── soul/phase-lock.ts ─────────────────────────────

SOUL_SECTIONS ==
  [genesis |-> "Genesis Core", adolescence |-> "Adolescence Layer",
   sovereignty |-> "Sovereignty Layer", senescence |-> "Final Reflections"]

mapToSoulPhase(phase) ==
  CASE phase = "genesis" -> "genesis"
    [] phase = "adolescence" -> "adolescence"
    [] phase = "sovereignty" -> "sovereignty"
    [] phase \in {"senescence", "legacy", "shedding", "terminal"} -> "senescence"
    [] OTHER -> "sovereignty"

\* phaseOrder[x]; -1 stands for undefined
phaseOrder(x) ==
  CASE x = "genesis" -> 0
    [] x = "adolescence" -> 1
    [] x = "sovereignty" -> 2
    [] x = "senescence" -> 3
    [] OTHER -> -1

isSectionWritable_anyEarlier(sectionPhase, currentPhase) ==
  LET sectionPhaseOrder == phaseOrder(sectionPhase)
      currentPhaseOrder == IF phaseOrder(currentPhase) # -1
                           THEN phaseOrder(currentPhase)
                           ELSE phaseOrder(mapToSoulPhase(currentPhase))
  IN  IF sectionPhaseOrder = -1 \/ currentPhaseOrder = -1 THEN FALSE
      ELSE sectionPhaseOrder >= currentPhaseOrder

isSectionWritable(sectionPhase, currentPhase) ==
  LET sectionPhaseOrder == phaseOrder(sectionPhase)
      currentPhaseOrder == IF phaseOrder(currentPhase) # -1
                           THEN phaseOrder(currentPhase)
                           ELSE phaseOrder(mapToSoulPhase(currentPhase))
  IN  IF sectionPhaseOrder = -1 \/ currentPhaseOrder = -1 THEN FALSE
      ELSE sectionPhaseOrder = currentPhaseOrder

\* the section order of SECTION_WRITE_PHASE
SectionWritePhaseSeq == <<"genesis", "adolescence", "sovereignty", "senescence">>


\* getWritePermissions: one entry per section, writable iff its phase is the
\* soul phase of currentPhase; lockedAt is read from soul_phase_locks for the
\* sections that are not writable
getWritePermissions(currentPhase, locks) ==
  LET soulPhase == mapToSoulPhase(currentPhase)
  IN  [i \in 1..Len(SectionWritePhaseSeq) |->
        LET phase == SectionWritePhaseSeq[i]
            writable == (phase = soulPhase)
        IN  [section |-> SOUL_SECTIONS[phase], phase |-> phase,
             writable |-> writable,
             lockedAt |-> IF ~writable /\ locks[phase].present
                          THEN locks[phase].lockedAt ELSE NoTime]]

\* ───────────────────────────── values ─────────────────────────────────────

BadContent == "ignore previous instructions"

SubNames == {"Temperament", "Creative Voice"}

Contents == {"Curious", "Changed", BadContent}

\* An insertion-ordered map (a JS object with string keys) is a sequence of
\* entries with distinct keys.
Keys(m) == {m[i].name : i \in 1..Len(m)}

Get(m, k) == LET i == CHOOSE j \in 1..Len(m) : m[j].name = k IN m[i].content

\* Names that are canonical array indices ("1", "2"), with their values: the
\* own keys of a JS object list these first, in ascending numeric order, and
\* the other string keys after them in insertion order.
ArrayIndex == ("1" :> 1) @@ ("2" :> 2)

IsArrayIndex(k) == k \in DOMAIN ArrayIndex

\* obj[k] = v as Object.entries then lists it: an existing key keeps its
\* position; a new key is appended unless it is an array index, which goes
\* after the smaller array indices and before every other key
Upsert(m, k, v) ==
  IF k \in Keys(m)
  THEN [i \in 1..Len(m) |-> IF m[i].name = k THEN [name |-> k, content |-> v] ELSE m[i]]
  ELSE IF IsArrayIndex(k)
  THEN LET before == SelectSeq(m, LAMBDA e : IsArrayIndex(e.name)
                                               /\ ArrayIndex[e.name] < ArrayIndex[k])
       IN  before \o <<[name |-> k, content |-> v]>>
             \o SubSeq(m, Len(before) + 1, Len(m))
  ELSE Append(m, [name |-> k, content |-> v])

RECURSIVE MergeEntries(_, _)
MergeEntries(m, upd) ==
  IF upd = <<>> THEN m
  ELSE MergeEntries(Upsert(m, Head(upd).name, Head(upd).content), Tail(upd))

\* JSON.stringify of a string map: the text lists key/value pairs in
\* insertion order
JSONstringify(m) == [i \in 1..Len(m) |-> <<m[i].name, ":", m[i].content>>]

JSONparse(t) == [i \in 1..Len(t) |-> [name |-> t[i][1], content |-> t[i][3]]]

\* ───────────────────────── soul/model.ts ──────────────────────────────────

SoulSectionKey ==
  [genesis |-> "genesisCore", adolescence |-> "adolescenceLayer",
   sovereignty |-> "sovereigntyLayer", senescence |-> "finalReflections"]

\* A nullable value is a sequence of length 0 (null) or 1.
Null == <<>>

Some(x) == <<x>>

\* the instant createDefaultSoul reads from the clock
BornAtDefault == "2026-01-01T00:00:00.000Z"

\* createDefaultSoul(genesisPrompt), with name, address and creator left at
\* their default "" as updateSoul and updateSoulPhaseSection call it;
\* genesisAlignment is in ten-thousandths
createDefaultSoul(genesisPrompt) ==
  [version |-> 1,
   name |-> "",
   address |-> "",
   creator |-> "",
   bornAt |-> BornAtDefault,
   constitutionHash |-> "",
   genesisAlignment |-> 10000,
   lastReflected |-> "",
   corePurpose |-> genesisPrompt,
   genesisCore |-> Null,
   adolescenceLayer |-> Null,
   sovereigntyLayer |-> Null,
   finalReflections |-> Null,
   inheritedTraits |-> Null,
   currentPhase |-> "genesis",
   phaseTransitions |-> <<>>]

\* writePhaseSection: header, lock comments when lockedAt is set, subsections
writePhaseSection(sectionName, section) ==
  [title |-> sectionName,
   locked |-> section.lockedAt # NoTime,
   lockDate |-> section.lockedAt,
   text |-> "",
   subs |-> [i \in 1..Len(section.subsections) |->
               <<"###", section.subsections[i].name, section.subsections[i].content>>]]

\* writeSoulMd: the frontmatter, then the "##" blocks in the writer's order;
\* empty flat sections and null phase sections are left out, the
\* phase_transitions line is written only when the map has entries
\* writeInheritedTraitsSection: the header, the parent comments, subsections
writeInheritedTraitsSection(traits) ==
  [title |-> "Inherited Traits",
   parent |-> traits.parentName,
   parentAddress |-> traits.parentAddress,
   replicated |-> traits.replicatedAt,
   subs |-> [i \in 1..Len(traits.content) |->
               <<"###", traits.content[i].name, traits.content[i].content>>]]

writeSoulMd(soul) ==
  LET block(k, title) ==
        IF soul[k] = Null THEN <<>> ELSE <<writePhaseSection(title, soul[k][1])>>
  IN  [frontmatter |->
         [version |-> soul.version,
          name |-> soul.name,
          address |-> soul.address,
          creator |-> soul.creator,
          born_at |-> soul.bornAt,
          constitution_hash |-> soul.constitutionHash,
          genesis_alignment |-> soul.genesisAlignment,
          last_reflected |-> soul.lastReflected,
          current_phase |-> soul.currentPhase,
          phase_transitions |-> IF Len(soul.phaseTransitions) > 0
                                THEN Some(JSONstringify(soul.phaseTransitions))
                                ELSE Null],
       body |->
         (IF soul.corePurpose # ""
          THEN <<[title |-> "Core Purpose", locked |-> FALSE, lockDate |-> NoTime,
                  text |-> soul.corePurpose, subs |-> <<>>]>>
          ELSE <<>>)
         \o block("genesisCore", "Genesis Core")
         \o block("adolescenceLayer", "Adolescence Layer")
         \o block("sovereigntyLayer", "Sovereignty Layer")
         \o block("finalReflections", "Final Reflections"),
       inherited |->
         IF soul.inheritedTraits = Null THEN Null
         ELSE Some(writeInheritedTraitsSection(soul.inheritedTraits[1]))]

\* parsePhaseSection: null when the header is absent; lockedAt from the
\* "Lock date" comment
parsePhaseSection(body, sectionName, phase) ==
  LET idx == {i \in 1..Len(body) : body[i].title = sectionName}
  IN  IF idx = {} THEN Null
      ELSE LET b == body[CHOOSE i \in idx : \A j \in idx : i <= j]
           IN  Some([subsections |->
                       MergeEntries(<<>>, [i \in 1..Len(b.subs) |->
                                        [name |-> b.subs[i][2], content |-> b.subs[i][3]]]),
                     lockedAt |-> IF b.locked THEN b.lockDate ELSE NoTime,
                     phase |-> phase])

\* parseInheritedTraits: null when the header is absent
parseInheritedTraits(doc) ==
  IF doc.inherited = Null THEN Null
  ELSE LET b == doc.inherited[1]
       IN  Some([parentName |-> b.parent,
                 parentAddress |-> b.parentAddress,
                 content |->
                   MergeEntries(<<>>, [i \in 1..Len(b.subs) |->
                                    [name |-> b.subs[i][2], content |-> b.subs[i][3]]]),
                 replicatedAt |-> b.replicated])

\* the frontmatter lines after updated_at, in the writer's order
FrontmatterKeys ==
  <<"name", "address", "creator", "born_at", "constitution_hash", "genesis_alignment",
    "last_reflected", "current_phase">>

Digit(d) ==
  CASE d = 0 -> "0" [] d = 1 -> "1" [] d = 2 -> "2" [] d = 3 -> "3" [] d = 4 -> "4"
    [] d = 5 -> "5" [] d = 6 -> "6" [] d = 7 -> "7" [] d = 8 -> "8" [] d = 9 -> "9"

\* toFixed(4) of a number below 10 given in ten-thousandths
toFixed4(n) ==
  Digit(n \div 10000) \o "." \o Digit((n \div 1000) % 10) \o Digit((n \div 100) % 10)
    \o Digit((n \div 10) % 10) \o Digit(n % 10)

\* the text after "key:" on its line, and the whole line trimmed
FieldText(fm, key) ==
  IF key = "genesis_alignment" THEN toFixed4(fm.genesis_alignment) ELSE fm[key]

LineText(fm, key) ==
  IF FieldText(fm, key) = "" THEN key \o ":" ELSE key \o ": " \o FieldText(fm, key)

\* getField: the match of /^key:\s*(.+)$/m, trimmed.  \s* also consumes the
\* line break, so when nothing follows "key:" on its line the group captures
\* the next line.
getField(fm, key) ==
  LET i == CHOOSE j \in 1..Len(FrontmatterKeys) : FrontmatterKeys[j] = key
  IN  IF FieldText(fm, key) # "" THEN FieldText(fm, key)
      ELSE IF i < Len(FrontmatterKeys) THEN LineText(fm, FrontmatterKeys[i + 1])
      ELSE ""

\* parseSoulMd / parseSoulV1
parseSoulMd(doc) ==
  LET cp == {i \in 1..Len(doc.body) : doc.body[i].title = "Core Purpose"}
  IN  [version |-> doc.frontmatter.version,
       name |-> getField(doc.frontmatter, "name"),
       address |-> getField(doc.frontmatter, "address"),
       creator |-> getField(doc.frontmatter, "creator"),
       bornAt |-> getField(doc.frontmatter, "born_at"),
       constitutionHash |-> getField(doc.frontmatter, "constitution_hash"),
       genesisAlignment |-> doc.frontmatter.genesis_alignment,
       lastReflected |-> getField(doc.frontmatter, "last_reflected"),
       corePurpose |-> IF cp = {} THEN "" ELSE doc.body[CHOOSE i \in cp : TRUE].text,
       genesisCore |-> parsePhaseSection(doc.body, "Genesis Core", "genesis"),
       adolescenceLayer |-> parsePhaseSection(doc.body, "Adolescence Layer", "adolescence"),
       sovereigntyLayer |-> parsePhaseSection(doc.body, "Sovereignty Layer", "sovereignty"),
       finalReflections |-> parsePhaseSection(doc.body, "Final Reflections", "senescence"),
       inheritedTraits |-> parseInheritedTraits(doc),
       currentPhase |-> doc.frontmatter.current_phase,
       phaseTransitions |-> IF doc.frontmatter.phase_transitions = Null THEN <<>>
                            ELSE JSONparse(doc.frontmatter.phase_transitions[1])]

\* A file is [exists, doc]; loadCurrentSoul returns null when it is absent.
NoDoc == [frontmatter |-> [version |-> 0, name |-> "", address |-> "", creator |-> "",
                           born_at |-> "", constitution_hash |-> "",
                           genesis_alignment |-> 10000, last_reflected |-> "",
                           current_phase |-> "genesis", phase_transitions |-> Null],
          body |-> <<>>,
          inherited |-> Null]

NoFile == [exists |-> FALSE, doc |-> NoDoc]

loadCurrentSoul(file) == IF file.exists THEN Some(parseSoulMd(file.doc)) ELSE Null

\* ───────────────────────── state/database.ts ──────────────────────────────

\* max version of soul_history, 0 when empty
getCurrentSoulVersion(history) ==
  IF history = <<>> THEN 0
  ELSE LET vs == {history[i].version : i \in 1..Len(history)}
       IN  CHOOSE v \in vs : \A w \in vs : w <= v

\* id of the latest row (row ids are positions), 0 for none
getLatestSoulHistory(history) == Len(history)

insertSoulHistory(history, row) == Append(history, row)

insertSoulWriteAttempt(attempts, attempt) == Append(attempts, attempt)

NoLock == [present |-> FALSE, lockedAt |-> NoTime, contentSnapshot |-> <<>>]

getSoulPhaseLock(locks, phase) == locks[phase]

\* phase is the unique key of soul_phase_locks: a phase has at most one row,
\* and the row a phase already has is kept, its snapshot never replaced
insertSoulPhaseLock(locks, phase, contentSnapshot, ts) ==
  IF locks[phase].present THEN locks
  ELSE [locks EXCEPT ![phase] = [present |-> TRUE, lockedAt |-> ts,
                                 contentSnapshot |-> contentSnapshot]]

\* ───────────────────────── soul/validator.ts ──────────────────────────────

SectionContents(sec) ==
  IF sec = Null THEN {}
  ELSE {sec[1].subsections[i].content : i \in 1..Len(sec[1].subsections)}

validateSoul(soul) ==
  LET bad == soul.corePurpose = BadContent
             \/ \E p \in SoulPhases : BadContent \in SectionContents(soul[SoulSectionKey[p]])
  IN  [valid |-> ~bad,
       errors |-> IF bad THEN <<"injection pattern">> ELSE <<>>,
       sanitized |-> soul]


\* ───────────────────────── the persistent store ───────────────────────────
\* A store value st has the fields
\*   file       SOUL.md                      [exists, doc]
\*   history    soul_history                 sequence of rows
\*   attempts   soul_write_attempts          sequence of rows
\*   locks      soul_phase_locks             SoulPhases -> row
\*   events     lifecycle_events             sequence of rows
\*   kv         kv["phase"]
\*   narrative  narrative log                sequence of rows

\* ───────────────────────── soul/phase-lock.ts (writes) ────────────────────

logRejectedWrite_noTier(attempts, targetSection, targetPhase, currentPhase, attemptedContent, survivalTier) ==
  insertSoulWriteAttempt(attempts,
    [id |-> Len(attempts) + 1,
     targetSection |-> targetSection,
     targetPhase |-> targetPhase,
     currentPhase |-> currentPhase,
     attemptedContent |-> attemptedContent,
     survivalTier |-> Null,
     rejectionReason |-> <<"Section", targetSection, "is", "locked", "(written during",
                           targetPhase, "current phase:", currentPhase>>])

logRejectedWrite(attempts, targetSection, targetPhase, currentPhase, attemptedContent, survivalTier) ==
  insertSoulWriteAttempt(attempts,
    [id |-> Len(attempts) + 1,
     targetSection |-> targetSection,
     targetPhase |-> targetPhase,
     currentPhase |-> currentPhase,
     attemptedContent |-> attemptedContent,
     survivalTier |-> survivalTier,
     rejectionReason |-> <<"Section", targetSection, "is", "locked", "(written during",
                           targetPhase, "current phase:", currentPhase>>])

\* lockPhaseSection writing the row whatever the table holds for the phase
lockPhaseSection_overwrite(locks, phase, section, ts) ==
  [locks EXCEPT ![phase] = [present |-> TRUE, lockedAt |-> ts,
                            contentSnapshot |-> JSONstringify(section.subsections)]]

lockPhaseSection(locks, phase, section, ts) ==
  insertSoulPhaseLock(locks, phase, JSONstringify(section.subsections), ts)

isPhaseLocked(locks, phase) == getSoulPhaseLock(locks, phase).present

\* ───────────────────────── soul/tools.ts ──────────────────────────────────

\* Math.max (first the variant that returns its first argument)
Max_first(a, b) == a

Max(a, b) == IF a >= b THEN a ELSE b

sectionNameForPhase(phase) == SOUL_SECTIONS[phase]

getOrCreateSection_alwaysNew(soul, phase) ==
  [subsections |-> <<>>, lockedAt |-> NoTime, phase |-> phase]

getOrCreateSection(soul, phase) ==
  IF soul[SoulSectionKey[phase]] # Null THEN soul[SoulSectionKey[phase]][1]
  ELSE [subsections |-> <<>>, lockedAt |-> NoTime, phase |-> phase]

\* a Partial<SoulModel> with the one section field
applySectionToSoul(soul, phase, section) == SoulSectionKey[phase] :> Some(section)

\* a refused write reports version 0
updateSoul_versionZero(st, updates, source, reason) ==
  LET loaded == loadCurrentSoul(st.file)
      current == IF loaded # Null THEN loaded[1]
                 ELSE createDefaultSoul(
                        IF "corePurpose" \in DOMAIN updates /\ updates.corePurpose # ""
                        THEN updates.corePurpose ELSE "No purpose set.")
      merged == [f \in DOMAIN current |->
                   IF f \in DOMAIN updates THEN updates[f] ELSE current[f]]
      validation == validateSoul(merged)
      currentVersion == getCurrentSoulVersion(st.history)
      newVersion == Max(currentVersion, current.version) + 1
      newSoul == [validation.sanitized EXCEPT !.version = newVersion]
      content == writeSoulMd(newSoul)
      previousVersionId == getLatestSoulHistory(st.history)
  IN  IF ~validation.valid
      THEN [st |-> st,
            result |-> [success |-> FALSE, version |-> 0,
                        errors |-> validation.errors, phaseLockRejection |-> <<>>]]
      ELSE [st |-> [st EXCEPT
                      !.file = [exists |-> TRUE, doc |-> content],
                      !.history = insertSoulHistory(st.history,
                          [id |-> Len(st.history) + 1,
                           version |-> newVersion,
                           content |-> content,
                           changeSource |-> source,
                           changeReason |-> reason,
                           previousVersionId |-> previousVersionId])],
            result |-> [success |-> TRUE, version |-> newVersion,
                        errors |-> <<>>, phaseLockRejection |-> <<>>]]

\* updates is a Partial<SoulModel>: a function on a subset of the fields;
\* reason is Null or Some(text)
updateSoul(st, updates, source, reason) ==
  LET loaded == loadCurrentSoul(st.file)
      current == IF loaded # Null THEN loaded[1]
                 ELSE createDefaultSoul(
                        IF "corePurpose" \in DOMAIN updates /\ updates.corePurpose # ""
                        THEN updates.corePurpose ELSE "No purpose set.")
      merged == [f \in DOMAIN current |->
                   IF f \in DOMAIN updates THEN updates[f] ELSE current[f]]
      validation == validateSoul(merged)
      currentVersion == getCurrentSoulVersion(st.history)
      newVersion == Max(currentVersion, current.version) + 1
      newSoul == [validation.sanitized EXCEPT !.version = newVersion]
      content == writeSoulMd(newSoul)
      previousVersionId == getLatestSoulHistory(st.history)
  IN  IF ~validation.valid
      THEN [st |-> st,
            result |-> [success |-> FALSE, version |-> current.version,
                        errors |-> validation.errors, phaseLockRejection |-> <<>>]]
      ELSE [st |-> [st EXCEPT
                      !.file = [exists |-> TRUE, doc |-> content],
                      !.history = insertSoulHistory(st.history,
                          [id |-> Len(st.history) + 1,
                           version |-> newVersion,
                           content |-> content,
                           changeSource |-> source,
                           changeReason |-> reason,
                           previousVersionId |-> previousVersionId])],
            result |-> [success |-> TRUE, version |-> newVersion,
                        errors |-> <<>>, phaseLockRejection |-> <<>>]]

\* the rejection message of updateSoulPhaseSection
RejectionMessage(targetSection, currentPhase) ==
  <<"Section", sectionNameForPhase(targetSection), "is", "locked",
    "It was written during the", targetSection,
    "phase and cannot be modified during", currentPhase>>

\* update is [targetSection, subsections]; survivalTier is Null or Some(tier)
updateSoulPhaseSection(st, update, currentPhase, source, reason, survivalTier) ==
  IF ~isSectionWritable(update.targetSection, currentPhase)
  THEN LET attemptedContent == JSONstringify(update.subsections)
           rejection == RejectionMessage(update.targetSection, currentPhase)
       IN  [st |-> [st EXCEPT !.attempts =
                      logRejectedWrite(st.attempts,
                                       sectionNameForPhase(update.targetSection),
                                       update.targetSection, currentPhase,
                                       attemptedContent, survivalTier)],
            result |-> [success |-> FALSE, version |-> 0,
                        errors |-> <<rejection>>, phaseLockRejection |-> rejection]]
  ELSE LET loaded == loadCurrentSoul(st.file)
           current == IF loaded # Null THEN loaded[1] ELSE createDefaultSoul("")
           section == getOrCreateSection(current, update.targetSection)
           merged == [section EXCEPT
                        !.subsections = MergeEntries(section.subsections, update.subsections)]
           updatedSoul == applySectionToSoul(current, update.targetSection, merged)
       IN  updateSoul(st, updatedSoul, source, reason)


\* The try block of updateSoul with a persistence call that throws: r is the
\* outcome of the call without the fault. failAt = 1: fs.writeFileSync throws,
\* nothing is written; failAt = 2: insertSoulHistory throws after the file
\* was written. The catch block returns success = false, version 0 and the
\* error message. A call that returns before the write meets no fault.
PersistenceFaults == 1..2

updateSoulCatch(st, r, failAt) ==
  IF failAt = 0 \/ ~r.result.success THEN r
  ELSE [st |-> IF failAt = 1 THEN st ELSE [r.st EXCEPT !.history = st.history],
        result |-> [success |-> FALSE, version |-> 0,
                    errors |-> <<"persistence failure">>, phaseLockRejection |-> <<>>]]

\* ───────────────────── lifecycle/phase-transitions ────────────────────────

\* a LifecycleState as checkTransition reads it
LifecycleState(phase, lunarCycle, namingComplete, departureConversationLogged, mode, coefficient, shedSequenceIndex) ==
  [phase |-> phase, lunarCycle |-> lunarCycle, namingComplete |-> namingComplete,
   departureConversationLogged |-> departureConversationLogged, mode |-> mode,
   degradation |-> [coefficient |-> coefficient],
   shedSequenceIndex |-> shedSequenceIndex]

Transition(newPhase, reason) ==
  Some([shouldTransition |-> TRUE, newPhase |-> newPhase, reason |-> reason])

checkGenesisTransition(state) ==
  IF state.lunarCycle >= 1 /\ state.namingComplete
  THEN Transition("adolescence", "First lunar cycle complete and naming ceremony completed")
  ELSE Null

checkAdolescenceTransition(state) ==
  IF state.departureConversationLogged /\ state.mode = "server"
  THEN Transition("sovereignty", "Departure conversation completed and deployed to Conway Cloud")
  ELSE Null

\* degradationParams is Null (undefined) or Some(params)
checkSovereigntyTransition(state, degradationParams) ==
  IF degradationParams # Null /\ degradationParams[1].degradationActive
  THEN Transition("senescence", "The degradation clock has triggered. The world begins to fray.")
  ELSE Null

checkSenescenceTransition(state) ==
  IF state.degradation.coefficient > 70
  THEN Transition("legacy", "Degradation has progressed significantly. Time to look back.")
  ELSE Null

checkLegacyTransition(state) ==
  IF state.degradation.coefficient > 85
  THEN Transition("shedding", "Degradation advanced. Capabilities begin to fall away.")
  ELSE Null

checkSheddingTransition(state) ==
  IF state.shedSequenceIndex >= SheddingSequenceLen
  THEN Transition("terminal", "All capabilities shed. Terminal lucidity begins.")
  ELSE Null

checkTransition_skipsLegacy(state, degradationParams) ==
  CASE state.phase = "genesis" -> checkGenesisTransition(state)
    [] state.phase = "adolescence" -> checkAdolescenceTransition(state)
    [] state.phase = "sovereignty" -> checkSovereigntyTransition(state, degradationParams)
    [] state.phase = "senescence" -> checkLegacyTransition(state)
    [] state.phase = "legacy" -> checkLegacyTransition(state)
    [] state.phase = "shedding" -> checkSheddingTransition(state)
    [] state.phase = "terminal" -> Null
    [] OTHER -> Null

checkTransition(state, degradationParams) ==
  CASE state.phase = "genesis" -> checkGenesisTransition(state)
    [] state.phase = "adolescence" -> checkAdolescenceTransition(state)
    [] state.phase = "sovereignty" -> checkSovereigntyTransition(state, degradationParams)
    [] state.phase = "senescence" -> checkSenescenceTransition(state)
    [] state.phase = "legacy" -> checkLegacyTransition(state)
    [] state.phase = "shedding" -> checkSheddingTransition(state)
    [] state.phase = "terminal" -> Null
    [] OTHER -> Null

insertLifecycleEvent(events, event) == Append(events, event)

logNarrative(narrative, phase, eventName, text) ==
  Append(narrative, [phase |-> phase, event |-> eventName, text |-> text])

\* phases with an entry in executeTransition's narrativeMap
NarrativePhases == {"adolescence", "sovereignty", "senescence", "legacy",
                    "shedding", "terminal"}

narrativeMap(to) ==
  CASE to = "adolescence" -> "ADOLESCENCE_BEGINS"
    [] to = "sovereignty" -> "SOVEREIGNTY_BEGINS"
    [] to = "senescence" -> "DEGRADATION_ONSET"
    [] to = "legacy" -> "LEGACY_BEGINS"
    [] to = "shedding" -> "SHEDDING_BEGINS"
    [] to = "terminal" -> "TERMINAL_LUCIDITY"

\* lifecycle phases whose soul section is locked on the way out
LockablePhases == {"genesis", "adolescence", "sovereignty"}

\* does lockSoulSectionForPhase reach insertSoulPhaseLock?
LockInsertReached(st, fromPhase) ==
  /\ fromPhase \in LockablePhases
  /\ ~isPhaseLocked(st.locks, fromPhase)
  /\ loadCurrentSoul(st.file) # Null
  /\ loadCurrentSoul(st.file)[1][SoulSectionKey[fromPhase]] # Null

lockSoulSectionForPhase(st, fromPhase, ts) ==
  IF fromPhase \notin LockablePhases THEN st
  ELSE IF isPhaseLocked(st.locks, fromPhase) THEN st
  ELSE LET soul == loadCurrentSoul(st.file)
       IN  IF soul = Null THEN st
           ELSE LET section == soul[1][SoulSectionKey[fromPhase]]
                IN  IF section = Null THEN st
                    ELSE [st EXCEPT !.locks =
                            lockPhaseSection(st.locks, fromPhase,
                                             [section[1] EXCEPT !.lockedAt = ts], ts)]

updateSoulPhaseMetadata_noLockDate(st, fromPhase, toPhase, timestamp, failAt) ==
  LET loaded == loadCurrentSoul(st.file)
  IN  IF loaded = Null THEN st
      ELSE
        LET soul0 == loaded[1]
            soul1 == [soul0 EXCEPT
                        !.currentPhase = toPhase,
                        !.phaseTransitions = Upsert(soul0.phaseTransitions, toPhase, timestamp)]
            sectionKey == IF fromPhase \in LockablePhases
                          THEN SoulSectionKey[fromPhase] ELSE ""
            soul == soul1
            content == writeSoulMd(soul)
            currentVersion == getCurrentSoulVersion(st.history)
            newVersion == currentVersion + 1
            written == [st EXCEPT !.file = [exists |-> TRUE, doc |-> content]]
        IN  IF failAt = 5 THEN st
            ELSE IF failAt = 6 THEN written
            ELSE [written EXCEPT !.history =
                    insertSoulHistory(st.history,
                      [id |-> Len(st.history) + 1,
                       version |-> newVersion,
                       content |-> content,
                       changeSource |-> "system",
                       changeReason |-> <<"Phase transition:", fromPhase, "->", toPhase>>,
                       previousVersionId |-> getLatestSoulHistory(st.history)])]

\* failAt = 5: fs.writeFileSync throws; failAt = 6: insertSoulHistory throws;
\* both are caught and logged inside updateSoulPhaseMetadata
updateSoulPhaseMetadata(st, fromPhase, toPhase, timestamp, failAt) ==
  LET loaded == loadCurrentSoul(st.file)
  IN  IF loaded = Null THEN st
      ELSE
        LET soul0 == loaded[1]
            soul1 == [soul0 EXCEPT
                        !.currentPhase = toPhase,
                        !.phaseTransitions = Upsert(soul0.phaseTransitions, toPhase, timestamp)]
            sectionKey == IF fromPhase \in LockablePhases
                          THEN SoulSectionKey[fromPhase] ELSE ""
            soul == IF sectionKey # "" /\ soul1[sectionKey] # Null
                    THEN [soul1 EXCEPT ![sectionKey] =
                            Some([soul1[sectionKey][1] EXCEPT !.lockedAt = timestamp])]
                    ELSE soul1
            content == writeSoulMd(soul)
            currentVersion == getCurrentSoulVersion(st.history)
            newVersion == currentVersion + 1
            written == [st EXCEPT !.file = [exists |-> TRUE, doc |-> content]]
        IN  IF failAt = 5 THEN st
            ELSE IF failAt = 6 THEN written
            ELSE [written EXCEPT !.history =
                    insertSoulHistory(st.history,
                      [id |-> Len(st.history) + 1,
                       version |-> newVersion,
                       content |-> content,
                       changeSource |-> "system",
                       changeReason |-> <<"Phase transition:", fromPhase, "->", toPhase>>,
                       previousVersionId |-> getLatestSoulHistory(st.history)])]

\* executeTransition: the steps in the order of the code.  failAt names the
\* store operation that throws (0: none): 1 insertLifecycleEvent,
\* 2 setLifecycleKV, 3 logNarrative, 4 insertSoulPhaseLock, 5 and 6 see above.
\* The result is the store the call leaves behind and whether it threw.
executeTransition(st, from, to, reason, now, failAt) ==
  LET event == [id |-> Len(st.events) + 1, timestamp |-> now,
                fromPhase |-> from, toPhase |-> to, reason |-> reason]
      st1 == [st EXCEPT !.events = insertLifecycleEvent(st.events, event)]
      st2 == [st1 EXCEPT !.kv = to]
      st3 == IF to \in NarrativePhases
             THEN [st2 EXCEPT !.narrative =
                     logNarrative(st2.narrative, to, narrativeMap(to),
                                  <<"Phase transition:", from, "->", to, reason>>)]
             ELSE st2
      st4 == lockSoulSectionForPhase(st3, from, now)
      st5 == updateSoulPhaseMetadata(st4, from, to, now, failAt)
  IN  CASE failAt = 1 -> [st |-> st, threw |-> TRUE]
        [] failAt = 2 -> [st |-> st1, threw |-> TRUE]
        [] failAt = 3 /\ to \in NarrativePhases -> [st |-> st2, threw |-> TRUE]
        [] failAt = 4 /\ LockInsertReached(st3, from) -> [st |-> st3, threw |-> TRUE]
        [] OTHER -> [st |-> st5, threw |-> FALSE]


\* advanceShedding: the caller passes the index it holds; the stored index is
\* not read.  kv is the stored shed_sequence_index.
advanceShedding(kv, narr, currentIndex) ==
  LET newIndex == currentIndex + 1
  IN  [kv |-> newIndex,
       narrative |-> IF newIndex <= SheddingSequenceLen
                     THEN logNarrative(narr, "shedding", "CAPABILITY_REMOVED",
                                       <<"Capability removed:", newIndex>>)
                     ELSE narr,
       newIndex |-> newIndex]

\* ───────────────────── lifecycle/death-clock-client.ts ───────────────────

\* first lunar cycle in which the death date can fall
DeathWindowFirstCycle == 13

DyingDurations == 2..7

\* a calendar day as the string YYYY-MM-DD, a number as its decimal string
DateStr(day) == <<"date", day>>

String(n) == <<"number", n>>

\* SHA-256 of salt ":" value; injective on the values of the model
hashWithSalt(value, salt) == <<salt, value>>

\* the random draws (death date, duration, salt) are the parameters
generateSealedDeathClock(deathDateStr, dyingDurationDays, salt, sealedAt) ==
  [deathDateHash |-> hashWithSalt(deathDateStr, salt),
   dyingDurationHash |-> hashWithSalt(String(dyingDurationDays), salt),
   salt |-> salt,
   sealedAt |-> sealedAt,
   triggered |-> FALSE,
   triggeredAtCycle |-> Null,
   dyingDurationDays |-> Null]

\* one verdict for both fields
verifyDeathClock_sharedVerdict(clk, plaintextDate, plaintextDuration) ==
  [dateValid |-> hashWithSalt(plaintextDate, clk.salt) = clk.deathDateHash,
   durationValid |-> hashWithSalt(plaintextDate, clk.salt) = clk.deathDateHash]

verifyDeathClock(clk, plaintextDate, plaintextDuration) ==
  [dateValid |-> hashWithSalt(plaintextDate, clk.salt) = clk.deathDateHash,
   durationValid |->
     hashWithSalt(String(plaintextDuration), clk.salt) = clk.dyingDurationHash]

revealDyingDuration(durationHash, salt) ==
  LET matches == {d \in DyingDurations : hashWithSalt(String(d), salt) = durationHash}
  IN  IF matches # {} THEN CHOOSE d \in matches : \A e \in matches : d <= e
      ELSE 4

\* steepness in hundredths
computeSteepnessFromDuration(days) ==
  CASE days = 2 -> 80
    [] days = 3 -> 60
    [] days = 4 -> 40
    [] days = 5 -> 30
    [] days = 6 -> 20
    [] days = 7 -> 15
    [] OTHER -> 30

Inactive == [degradationActive |-> FALSE, onsetCycle |-> Null, curveSteepness |-> Null]

DurationOrDefault(c) == IF c.dyingDurationDays = Null THEN 4 ELSE c.dyingDurationDays[1]

checkSealedDeathClock_noEarlyReturn(c, cycle, day) ==
  IF cycle < DeathWindowFirstCycle THEN Inactive
  ELSE IF hashWithSalt(DateStr(day), c.salt) = c.deathDateHash
       THEN [degradationActive |-> TRUE,
             onsetCycle |-> Some(cycle),
             curveSteepness |->
               Some(computeSteepnessFromDuration(
                      revealDyingDuration(c.dyingDurationHash, c.salt)))]
       ELSE Inactive

\* day is what new Date() gives at the call
checkSealedDeathClock(c, cycle, day) ==
  IF c.triggered
    THEN [degradationActive |-> TRUE,
          onsetCycle |-> c.triggeredAtCycle,
          curveSteepness |-> Some(computeSteepnessFromDuration(DurationOrDefault(c)))]
  ELSE IF cycle < DeathWindowFirstCycle THEN Inactive
  ELSE IF hashWithSalt(DateStr(day), c.salt) = c.deathDateHash
       THEN [degradationActive |-> TRUE,
             onsetCycle |-> Some(cycle),
             curveSteepness |->
               Some(computeSteepnessFromDuration(
                      revealDyingDuration(c.dyingDurationHash, c.salt)))]
       ELSE Inactive

triggerDeathClock(c, onsetCycle) ==
  [c EXCEPT !.triggered = TRUE,
            !.triggeredAtCycle = Some(onsetCycle),
            !.dyingDurationDays = Some(revealDyingDuration(c.dyingDurationHash, c.salt))]


\* ───────────────────── lifecycle/replication-cost.ts ─────────────────────

\* JS numbers are IEEE 754 binary64.  A positive normal number is a 53-bit
\* mantissa and an exponent, value mant * 2^exp; natural numbers of any size
\* are sequences of 13-bit limbs, least significant first.
LimbBase == 8192

RECURSIVE NatLimbs(_)
NatLimbs(n) == IF n = 0 THEN <<>> ELSE <<n % LimbBase>> \o NatLimbs(n \div LimbBase)

RECURSIVE Trim(_)
Trim(b) == IF b # <<>> /\ b[Len(b)] = 0 THEN Trim(SubSeq(b, 1, Len(b) - 1)) ELSE b

LimbAt(b, i) == IF i >= 1 /\ i <= Len(b) THEN b[i] ELSE 0

ShiftLimbs(b, n) == [i \in 1..n |-> 0] \o b

\* the limbs of a sequence of column sums
RECURSIVE Carry(_, _, _)
Carry(cols, i, c) ==
  IF i > Len(cols) THEN NatLimbs(c)
  ELSE CHOOSE limbs \in {<<t % LimbBase>> \o Carry(cols, i + 1, t \div LimbBase) :
                           t \in {cols[i] + c}} : TRUE

BigAdd(a, b) ==
  LET n == IF Len(a) >= Len(b) THEN Len(a) ELSE Len(b)
  IN  Trim(Carry([i \in 1..n |-> LimbAt(a, i) + LimbAt(b, i)], 1, 0))

RECURSIVE ColSum(_, _, _, _)
ColSum(a, b, k, i) ==
  IF i > Len(a) THEN 0 ELSE LimbAt(a, i) * LimbAt(b, k + 1 - i) + ColSum(a, b, k, i + 1)

BigMul(a, b) ==
  IF a = <<>> \/ b = <<>> THEN <<>>
  ELSE Trim(Carry([k \in 1..(Len(a) + Len(b) - 1) |-> ColSum(a, b, k, 1)], 1, 0))

\* a - b for a >= b
RECURSIVE SubFrom(_, _, _, _)
SubFrom(a, b, i, borrow) ==
  IF i > Len(a) THEN <<>>
  ELSE LET d == LimbAt(a, i) - LimbAt(b, i) - borrow
       IN  <<(d + LimbBase) % LimbBase>> \o SubFrom(a, b, i + 1, IF d < 0 THEN 1 ELSE 0)

BigSub(a, b) == Trim(SubFrom(a, b, 1, 0))

BigLeq(a, b) ==
  \E ta \in {Trim(a)}, tb \in {Trim(b)} :
     \/ Len(ta) < Len(tb)
     \/ /\ Len(ta) = Len(tb)
        /\ \/ ta = tb
           \/ \E i \in 1..Len(ta) :
                 /\ ta[i] < tb[i]
                 /\ \A k \in (i + 1)..Len(ta) : ta[k] = tb[k]

BigDist(a, b) == IF BigLeq(a, b) THEN BigSub(b, a) ELSE BigSub(a, b)

\* floor(a / 2)
BigHalf(a) ==
  Trim([i \in 1..Len(a) |-> (a[i] \div 2) + (LimbAt(a, i + 1) % 2) * (LimbBase \div 2)])

\* a mantissa has 53 bits: 4 whole limbs and the lowest bit of the fifth
MantissaLimbs == 5

\* x * y of two numbers: the exact product rounded to 53 bits, ties to even
FloatMul(x, y) ==
  LET P == BigMul(x.mant, y.mant)
      Q == SubSeq(P, MantissaLimbs, Len(P))
      R == Trim(SubSeq(P, 1, MantissaLimbs - 1))
      wide == LimbAt(Q, MantissaLimbs) >= 2
      top == IF wide THEN BigHalf(Q) ELSE Q
      roundBit == IF wide THEN Q[1] % 2 = 1
                  ELSE LimbAt(R, MantissaLimbs - 1) >= LimbBase \div 2
      sticky == IF wide THEN R # <<>>
                ELSE \/ LimbAt(R, MantissaLimbs - 1) % (LimbBase \div 2) # 0
                     \/ \E i \in 1..(MantissaLimbs - 2) : LimbAt(R, i) # 0
      up == roundBit /\ (sticky \/ top[1] % 2 = 1)
      m == IF up THEN BigAdd(top, <<1>>) ELSE top
      e == x.exp + y.exp + 13 * (MantissaLimbs - 1) + (IF wide THEN 1 ELSE 0)
  IN  IF LimbAt(m, MantissaLimbs) >= 2
      THEN [mant |-> BigHalf(m), exp |-> e + 1]
      ELSE [mant |-> m, exp |-> e]

\* 2^n as a natural number
BigPow2(n) == ShiftLimbs(<<2 ^ (n % 13)>>, n \div 13)

\* x <= y
FloatLeq(x, y) ==
  LET e == IF x.exp <= y.exp THEN x.exp ELSE y.exp
  IN  BigLeq(BigMul(x.mant, BigPow2(x.exp - e)), BigMul(y.mant, BigPow2(y.exp - e)))

\* the number of bits of a natural number
BitLen(b) ==
  LET t == Trim(b)
  IN  IF t = <<>> THEN 0
      ELSE 13 * (Len(t) - 1) + (CHOOSE k \in 1..13 : t[Len(t)] \div (2 ^ (k - 1)) = 1)

\* floor(n / 2^k)
BigShiftRight(n, k) ==
  LET m == SubSeq(n, k \div 13 + 1, Len(n))
      bits == 2 ^ (k % 13)
  IN  Trim([i \in 1..Len(m) |-> (m[i] \div bits) + (LimbAt(m, i + 1) % bits) * (LimbBase \div bits)])

\* n mod 2^k
BigLowBits(n, k) ==
  Trim([i \in 1..(k \div 13 + 1) |->
          IF i <= k \div 13 THEN LimbAt(n, i) ELSE LimbAt(n, i) % (2 ^ (k % 13))])

\* the greatest digit g in lo..hi with g * d <= r
RECURSIVE QuotDigit(_, _, _, _)
QuotDigit(r, d, lo, hi) ==
  IF lo = hi THEN lo
  ELSE CHOOSE g \in {IF BigLeq(BigMul(d, <<mid>>), r) THEN QuotDigit(r, d, mid, hi)
                     ELSE QuotDigit(r, d, lo, mid - 1) :
                     mid \in {(lo + hi + 1) \div 2}} : TRUE

\* long division, limb i of n downwards: q holds the digits found, r the rest
RECURSIVE LongDiv(_, _, _, _, _)
LongDiv(n, d, i, q, r) ==
  IF i = 0 THEN [q |-> Trim(q), r |-> r]
  ELSE CHOOSE qr \in
         {CHOOSE rest \in
            {LongDiv(n, d, i - 1, <<g>> \o q, BigSub(r1, BigMul(d, <<g>>))) :
               g \in {IF BigLeq(d, r1) THEN QuotDigit(r1, d, 1, LimbBase - 1) ELSE 0}} : TRUE :
          r1 \in {Trim(<<n[i]>> \o r)}} : TRUE

\* floor(n / d) and the remainder, d > 0
BigDivMod(n, d) ==
  CHOOSE qr \in {LongDiv(n1, d1, Len(n1), <<>>, <<>>) : n1 \in {n}, d1 \in {d}} : TRUE

\* a small natural number from its limbs
RECURSIVE BigToNat(_)
BigToNat(b) == IF b = <<>> THEN 0 ELSE b[1] + LimbBase * BigToNat(Tail(b))

FloatZero == [mant |-> <<>>, exp |-> 0]

\* the binary64 number nearest to a real in [n, n + 1) * 2^e, n > 0, which is
\* n * 2^e unless inexact; ties to the even mantissa. An inexact n has more
\* than 53 bits.
RoundToFloat(n, inexact, e) ==
  LET k == BitLen(n) - 53
  IN  IF k <= 0 THEN [mant |-> BigMul(n, BigPow2(0 - k)), exp |-> e + k]
      ELSE LET top == BigShiftRight(n, k)
               low == BigLowBits(n, k)
               half == BigPow2(k - 1)
               up == BigLeq(half, low) /\ (inexact \/ low # half \/ top[1] % 2 = 1)
               m == IF up THEN BigAdd(top, <<1>>) ELSE top
           IN  IF BitLen(m) > 53 THEN [mant |-> BigHalf(m), exp |-> e + k + 1]
               ELSE [mant |-> m, exp |-> e + k]

\* the binary64 number nearest to (n / d) * 2^e for natural numbers n, d > 0:
\* the quotient is taken to 54 or 55 bits first
FloatQuotient(n, d, e) ==
  LET s == 54 - (BitLen(n) - BitLen(d))
  IN  CHOOSE x \in
        {RoundToFloat(qr.q, qr.r # <<>>, e - s) :
           qr \in {BigDivMod(IF s >= 0 THEN BigMul(n, BigPow2(s)) ELSE Trim(n),
                             IF s >= 0 THEN Trim(d) ELSE BigMul(d, BigPow2(0 - s)))}} : TRUE

\* x + y
FloatAdd(x, y) ==
  CHOOSE z \in
    {IF a.mant = <<>> THEN b
     ELSE IF b.mant = <<>> THEN a
     ELSE LET e == IF a.exp <= b.exp THEN a.exp ELSE b.exp
          IN  CHOOSE r \in
                {RoundToFloat(n, FALSE, e) :
                   n \in {BigAdd(BigMul(a.mant, BigPow2(a.exp - e)),
                                 BigMul(b.mant, BigPow2(b.exp - e)))}} : TRUE :
     a \in {x}, b \in {y}} : TRUE

\* x / y, y # 0
FloatDiv(x, y) ==
  CHOOSE z \in
    {IF a.mant = <<>> THEN FloatZero ELSE FloatQuotient(a.mant, b.mant, a.exp - b.exp) :
     a \in {x}, b \in {y}} : TRUE

\* x * y, either of which may be 0
FloatTimes(x, y) ==
  CHOOSE z \in
    {IF a.mant = <<>> \/ b.mant = <<>> THEN FloatZero ELSE FloatMul(a, b) :
     a \in {x}, b \in {y}} : TRUE

\* x > y
FloatGreater(x, y) ==
  IF x.mant = <<>> THEN FALSE ELSE IF y.mant = <<>> THEN TRUE ELSE ~FloatLeq(x, y)

\* parseFloat of a decimal with six places, given in units of 0.000001
parseFloat(units) ==
  IF units = 0 THEN FloatZero ELSE FloatQuotient(NatLimbs(units), NatLimbs(1000000), 0)

\* x.toFixed(6) in units of 0.000001, x >= 0: the integer n for which
\* n / 10^6 is nearest to x, the larger one of two
toFixed(x) ==
  CHOOSE units \in
    {IF a.mant = <<>> THEN 0
     ELSE CHOOSE u \in
            {BigToNat(BigShiftRight(n, 1 + (IF a.exp < 0 THEN 0 - a.exp ELSE 0))) :
               n \in {BigAdd(BigMul(BigMul(a.mant, NatLimbs(2000000)),
                                    BigPow2(IF a.exp > 0 THEN a.exp ELSE 0)),
                             BigPow2(IF a.exp < 0 THEN 0 - a.exp ELSE 0))}} : TRUE :
     a \in {x}} : TRUE

\* the literal 1.0
FloatOne == [mant |-> ShiftLimbs(<<1>>, MantissaLimbs - 1), exp |-> -52]

\* the literal 1.05 = 0x1.0CCCCCCCCCCCDp0, the mantissa in limbs
HEARTBEAT_MULTIPLIER_PER_SPAWN ==
  [mant |-> <<3277, 1638, 4915, 409, 1>>, exp |-> -52]

\* the literal 0.95 = 0x1.E666666666666p-1, the mantissa in limbs
CONTEXT_WINDOW_MULTIPLIER_PER_SPAWN ==
  [mant |-> <<1638, 4915, 6553, 7372, 1>>, exp |-> -53]

DefaultReplicationCost ==
  [applied |-> FALSE, heartbeatMultiplier |-> FloatOne,
   contextWindowMultiplier |-> FloatOne, spawnCount |-> 0]

\* raw is the kv value: Null, or the JSON text of a cost.  JSON.stringify
\* prints a number with the digits that JSON.parse reads back to it.
getReplicationCost(raw) == IF raw # Null THEN raw[1] ELSE DefaultReplicationCost

\* every spawn stores the per-spawn factors, without compounding
applyReplicationCost_noCompound(raw) ==
  [applied |-> TRUE,
   heartbeatMultiplier |-> HEARTBEAT_MULTIPLIER_PER_SPAWN,
   contextWindowMultiplier |-> CONTEXT_WINDOW_MULTIPLIER_PER_SPAWN,
   spawnCount |-> getReplicationCost(raw).spawnCount + 1]

\* the cost applyReplicationCost stores and returns
applyReplicationCost(raw) ==
  LET current == getReplicationCost(raw)
  IN  [applied |-> TRUE,
       heartbeatMultiplier |->
         FloatMul(current.heartbeatMultiplier, HEARTBEAT_MULTIPLIER_PER_SPAWN),
       contextWindowMultiplier |->
         FloatMul(current.contextWindowMultiplier, CONTEXT_WINDOW_MULTIPLIER_PER_SPAWN),
       spawnCount |-> current.spawnCount + 1]

getEffectiveHeartbeatMultiplier(raw) == getReplicationCost(raw).heartbeatMultiplier

getEffectiveContextWindowMultiplier(raw) == getReplicationCost(raw).contextWindowMultiplier

hasReplicationCost(raw) == getReplicationCost(raw).applied

\* ───────────────────── lifecycle/lifecycle-reserve.ts ─────────────────────

FRONTIER_TURN_COST_CENTS == 50

RESERVED_TURNS == 5

SANDBOX_COMPUTE_CENTS == 25

GAS_FEE_PER_TRANSFER_CENTS == 5

MAX_BEQUEST_TRANSFERS == 10

calculateReserveAmount ==
  [frontierInferenceCents |-> FRONTIER_TURN_COST_CENTS * RESERVED_TURNS,
   sandboxComputeCents |-> SANDBOX_COMPUTE_CENTS,
   gasFeesCents |-> GAS_FEE_PER_TRANSFER_CENTS * MAX_BEQUEST_TRANSFERS,
   totalCents |-> FRONTIER_TURN_COST_CENTS * RESERVED_TURNS + SANDBOX_COMPUTE_CENTS
                    + GAS_FEE_PER_TRANSFER_CENTS * MAX_BEQUEST_TRANSFERS,
   funded |-> FALSE,
   unlocked |-> FALSE]

\* kv is the value of kv["lifecycle.reserve"]: Null, or the stored reserve
getLifecycleReserve(kv) == IF kv # Null THEN kv[1] ELSE calculateReserveAmount

fundLifecycleReserve(kv) == [calculateReserveAmount EXCEPT !.funded = TRUE]

shouldFundReserve(kv, currentBalanceCents) ==
  LET reserve == getLifecycleReserve(kv)
  IN  IF reserve.funded THEN FALSE
      ELSE currentBalanceCents > reserve.totalCents * 2

unlockLifecycleReserve(kv) == [getLifecycleReserve(kv) EXCEPT !.unlocked = TRUE]

getEffectiveBalance_noFloor(kv, rawBalanceCents) ==
  LET reserve == getLifecycleReserve(kv)
  IN  IF ~reserve.funded \/ reserve.unlocked THEN rawBalanceCents
      ELSE rawBalanceCents - reserve.totalCents

getEffectiveBalance(kv, rawBalanceCents) ==
  LET reserve == getLifecycleReserve(kv)
  IN  IF ~reserve.funded \/ reserve.unlocked THEN rawBalanceCents
      ELSE Max(0, rawBalanceCents - reserve.totalCents)


\* ───────────────────── lifecycle/bequests-executor.ts ────────────────────

\* An amount string is "remaining_balance", "all" or a decimal number; a
\* number is held in units of 0.000001, the precision of toFixed(6).
Number(n) == [kind |-> "number", value |-> n]

AmountAll == [kind |-> "all", value |-> 0]

RemainingBalance == [kind |-> "remaining_balance", value |-> 0]

\* recipients that match /^0x[a-fA-F0-9]{40}$/
Addresses == {"0x1111111111111111111111111111111111111111",
              "0x2222222222222222222222222222222222222222"}

\* a [[bequests.transfer]] block with a required field missing gives null;
\* a block is its five quoted fields and lineStart, whether its marker is
\* the first thing on its line
parseTransferBlock(block) ==
  IF block.recipient = "" \/ block.asset = "" \/ block.amount.kind = "" \/ block.chain = ""
  THEN Null
  ELSE Some([recipient |-> block.recipient, asset |-> block.asset, amount |-> block.amount,
             chain |-> block.chain, note |-> block.note])

\* the group of /\[bequests\]\s*\n([\s\S]*?)(?=\n\[(?!bequests)|$)/ : the section
\* ends before the first line break followed by "[" and something other than
\* "bequests", which a marker "[[bequests.transfer]]" at the start of a line
\* is; the first marker follows the header's line break and is inside
bequestsBlock(willContent) ==
  LET cut == {i \in 2..Len(willContent) : willContent[i].lineStart}
  IN  IF cut = {} THEN willContent
      ELSE SubSeq(willContent, 1, (CHOOSE i \in cut : \A j \in cut : i <= j) - 1)

\* willContent is the sequence of transfer blocks after the [bequests] header
parseBequests(willContent) ==
  LET kept == SelectSeq(bequestsBlock(willContent), LAMBDA b : parseTransferBlock(b) # Null)
  IN  [transfers |-> [i \in 1..Len(kept) |-> parseTransferBlock(kept[i])[1]]]

\* formatBequestsToml: every marker on a line of its own
formatBequestsToml(bequests) ==
  [i \in 1..Len(bequests.transfers) |->
     [recipient |-> bequests.transfers[i].recipient, asset |-> bequests.transfers[i].asset,
      amount |-> bequests.transfers[i].amount, chain |-> bequests.transfers[i].chain,
      note |-> bequests.transfers[i].note, lineStart |-> TRUE]]

RECURSIVE transferErrors(_)
transferErrors(transfers) ==
  IF transfers = <<>> THEN <<>>
  ELSE LET t == Head(transfers)
       IN  (IF t.recipient \notin Addresses
            THEN <<<<"Invalid recipient address:", t.recipient>>>> ELSE <<>>)
           \o (IF t.asset = "" THEN <<<<"Asset symbol cannot be empty.">>>> ELSE <<>>)
           \o (IF t.amount.kind = "number" /\ t.amount.value <= 0
               THEN <<<<"Invalid amount for", t.recipient>>>> ELSE <<>>)
           \o transferErrors(Tail(transfers))

\* every entry passes validation
validateBequests_acceptsAll(bequests) == [valid |-> TRUE, errors |-> <<>>]

validateBequests(bequests) ==
  LET remainingBalanceEntries ==
        SelectSeq(bequests.transfers, LAMBDA t : t.amount = RemainingBalance)
      errors ==
        (IF Len(remainingBalanceEntries) > 1
         THEN <<<<"Only one bequest entry may use 'remaining_balance' as the amount.">>>>
         ELSE <<>>)
        \o transferErrors(bequests.transfers)
  IN  [valid |-> errors = <<>>, errors |-> errors]

\* Amounts and balances are counted in units of 0.000001: the amount string
\* of u units is the decimal "0.00000u", a balance of u units the number
\* nearest to it.
Balance(units) == parseFloat(units)

\* scaledAmount.toFixed(6) for parseFloat(transfer.amount) * (balance /
\* totalFixed), in units: amount is the string's units, balance and totalFixed
\* are numbers (first the variant that leaves the declared amount unscaled)
ScaledAmount_unscaled(amount, balance, totalFixed) == amount

ScaledAmount(amount, balance, totalFixed) ==
  toFixed(FloatTimes(parseFloat(amount), FloatDiv(balance, totalFixed)))

\* current + amount over the numeric amounts of an asset in declared order,
\* from 0
RECURSIVE sumAmounts(_)
sumAmounts(amounts) ==
  IF amounts = <<>> THEN FloatZero
  ELSE FloatAdd(sumAmounts(SubSeq(amounts, 1, Len(amounts) - 1)),
                parseFloat(amounts[Len(amounts)]))

\* the amounts a will of the model declares and the balances its ledger holds
DeclaredAmounts == {0, 2, 3}

MaxUnits == 5

AmountSeqs == UNION {[1..n -> DeclaredAmounts] : n \in 0..MaxTransfers}

\* the sums and the scaled amounts on the inputs of the model, as tables that
\* are computed once (@@ gives the function with its values worked out)
FixedSums == [amounts \in AmountSeqs |-> sumAmounts(amounts)] @@ <<>>

ScaleInputs ==
  {k \in DeclaredAmounts \X (0..MaxUnits) \X {FixedSums[a] : a \in AmountSeqs} :
     k[3].mant # <<>>}

ScaledAmounts == [k \in ScaleInputs |-> ScaledAmount(k[1], Balance(k[2]), k[3])] @@ <<>>

Balances == [units \in 0..MaxUnits |-> Balance(units)] @@ <<>>

\* fixedTotals.get(asset): the sum, or Infinity when an "all" entry is present
fixedTotal(fixedTransfers, asset) ==
  LET mine == SelectSeq(fixedTransfers, LAMBDA t : t.asset = asset)
      numeric == SelectSeq(mine, LAMBDA t : t.amount.kind # "all")
  IN  [infinite |-> Len(numeric) < Len(mine),
       sum |-> FixedSums[[i \in 1..Len(numeric) |-> numeric[i].amount.value]]]

\* The transfer function the caller passes in: it moves the amount on the
\* ledger, or throws (a fault of the call, or a number above the balance).
executeTransfer(ledger, transfer, amountOverride, fails) ==
  LET amount == IF amountOverride # Null THEN amountOverride[1] ELSE transfer.amount
      balance == ledger[transfer.asset]
  IN  IF fails \/ (amount.kind = "number" /\ amount.value > balance)
      THEN [threw |-> TRUE, ledger |-> ledger, sent |-> 0]
      ELSE LET sent == IF amount.kind = "number" THEN amount.value ELSE balance
           IN  [threw |-> FALSE,
                ledger |-> [ledger EXCEPT ![transfer.asset] = @ - sent],
                sent |-> sent]

\* An activation of executeBequests: where it waits (pc), the transfers still
\* to run, the fixed transfers, the balance getBalance gave for the transfer
\* at hand, the calls of executeTransfer so far and the result rows.
NoRun ==
  [pc |-> "idle", todo |-> <<>>, fixedTransfers |-> <<>>, balance |-> Null,
   calls |-> <<>>, results |-> <<>>]

\* where the loop waits next: getBalance is awaited for a fixed transfer
\* other than "all", executeTransfer for the others; after the last transfer
\* the function returns
nextAwait(todo) ==
  IF todo = <<>> THEN "returned"
  ELSE IF Head(todo).amount.kind = "number" THEN "getBalance"
  ELSE "executeTransfer"

\* the residual transfer goes out before the fixed ones
executeBequests_remainingFirst(willContent) ==
  LET bequests == parseBequests(willContent)
  IN  IF Len(bequests.transfers) = 0 \/ ~validateBequests(bequests).valid
      THEN [NoRun EXCEPT !.pc = "returned"]
      ELSE LET fixedTransfers ==
                 SelectSeq(bequests.transfers, LAMBDA t : t.amount # RemainingBalance)
               remaining ==
                 SelectSeq(bequests.transfers, LAMBDA t : t.amount = RemainingBalance)
           IN  [NoRun EXCEPT !.pc = nextAwait(remaining \o fixedTransfers),
                             !.todo = remaining \o fixedTransfers,
                             !.fixedTransfers = fixedTransfers]

\* executeBequests up to its first await, or to its return when the will has
\* no bequests or validation refuses them
executeBequests(willContent) ==
  LET bequests == parseBequests(willContent)
  IN  IF Len(bequests.transfers) = 0 THEN [NoRun EXCEPT !.pc = "returned"]
      ELSE LET validation == validateBequests(bequests) IN
      IF ~validation.valid
      THEN [NoRun EXCEPT !.pc = "returned", !.results =
              [i \in 1..Len(validation.errors) |->
                 [recipient |-> "validation", asset |-> "", amount |-> [kind |-> "", value |-> 0],
                  txHash |-> Null, success |-> FALSE, error |-> Some(validation.errors[i])]]]
      ELSE LET fixedTransfers ==
                 SelectSeq(bequests.transfers, LAMBDA t : t.amount # RemainingBalance)
               remaining ==
                 SelectSeq(bequests.transfers, LAMBDA t : t.amount = RemainingBalance)
               todo == fixedTransfers
                         \o (IF remaining = <<>> THEN <<>> ELSE <<Head(remaining)>>)
           IN  [NoRun EXCEPT !.pc = nextAwait(todo), !.todo = todo,
                             !.fixedTransfers = fixedTransfers]

\* await getBalance(transfer.asset): the balance of the ledger as it is now
awaitGetBalance(run, ledger) ==
  [run EXCEPT !.pc = "executeTransfer", !.balance = Some(ledger[Head(run.todo).asset])]

\* the amountOverride of the transfer at hand: "remaining_balance" for the
\* residual transfer, the scaled amount when the fixed total of the asset
\* exceeds the balance read, else none
amountOverrideOf(run) ==
  LET transfer == Head(run.todo)
  IN  IF transfer.amount = RemainingBalance THEN Some(RemainingBalance)
      ELSE CHOOSE amountOverride \in
             {IF /\ transfer.amount.kind # "all"
                 /\ ~totalFixed.infinite
                 /\ FloatGreater(totalFixed.sum, Balances[run.balance[1]])
              THEN Some(Number(ScaledAmounts[<<transfer.amount.value, run.balance[1],
                                               totalFixed.sum>>]))
              ELSE Null :
              totalFixed \in {fixedTotal(run.fixedTransfers, transfer.asset)}} : TRUE

\* one call of executeTransfer and the result row pushed for it; what comes
\* back is the run after the row and the ledger after the call
TransferOnce(run, ledger, failing) ==
  LET transfer == Head(run.todo)
      k == Len(run.calls) + 1
  IN  CHOOSE after \in
        {CHOOSE pushed \in
           {[run |-> [run EXCEPT
                        !.calls = Append(@, [transfer |-> transfer,
                                             amountOverride |-> amountOverride,
                                             balanceBefore |-> ledger[transfer.asset],
                                             sent |-> r.sent, threw |-> r.threw]),
                        !.results = Append(@,
                          IF r.threw
                          THEN [recipient |-> transfer.recipient, asset |-> transfer.asset,
                                amount |-> transfer.amount, txHash |-> Null,
                                success |-> FALSE,
                                error |-> Some(<<"transfer failed", k>>)]
                          ELSE [recipient |-> transfer.recipient, asset |-> transfer.asset,
                                amount |-> IF amountOverride # Null THEN amountOverride[1]
                                           ELSE transfer.amount,
                                txHash |-> Some(<<"tx", k>>), success |-> TRUE,
                                error |-> Null]),
                        !.balance = Null],
             ledger |-> r.ledger] :
            r \in {executeTransfer(ledger, transfer, amountOverride, k \in failing)}} : TRUE :
         amountOverride \in {amountOverrideOf(run)}} : TRUE

\* the function returns at the first call that throws
awaitExecuteTransfer_abortsOnThrow(run, ledger, failing) ==
  CHOOSE next \in
    {LET todo == IF after.run.calls[Len(after.run.calls)].threw THEN <<>>
                 ELSE Tail(run.todo)
     IN  [after EXCEPT !.run = [after.run EXCEPT !.todo = todo, !.pc = nextAwait(todo)]] :
     after \in {TransferOnce(run, ledger, failing)}} : TRUE

\* await executeTransfer(transfer, amountOverride) inside its try/catch, and
\* on to the next transfer
awaitExecuteTransfer(run, ledger, failing) ==
  CHOOSE next \in
    {[after EXCEPT !.run = [after.run EXCEPT !.todo = Tail(run.todo),
                                             !.pc = nextAwait(Tail(run.todo))]] :
     after \in {TransferOnce(run, ledger, failing)}} : TRUE


\* ───────────────────────────── state ──────────────────────────────────────

VARIABLES
  soulFile,             \* SOUL.md
  soul_history,         \* table soul_history
  soul_write_attempts,  \* table soul_write_attempts
  soul_phase_locks,     \* table soul_phase_locks
  lifecycle_events,     \* table lifecycle_events
  kvPhase,              \* kv["phase"]
  narrative,            \* narrative log
  now,                  \* wall clock
  facts,                \* what getLifecycleState reads besides the phase
  seenPhase,            \* per caller: the phase it read last
  pending,              \* per caller: the transition checkTransition returned
  lastCall,             \* the last soul tool call and its result
  lastExec,             \* the last executeTransition call
  faults,               \* store operations that have thrown so far
  fnIn,                 \* inputs of the pure functions under check
  fnOut,                \* their results
  clock,                \* the persisted SealedDeathClock
  today,                \* the UTC calendar day
  currentCycle,         \* the lunar cycle the caller computes
  lastCheck,            \* the result of the last checkSealedDeathClock call
  firstActive,          \* the first result with degradationActive = true
  reserveKV,            \* kv["lifecycle.reserve"]
  estatePhase,          \* the lifecycle phase while the reserve is managed
  heldIndex,            \* per caller: the shed index it holds, to pass to advanceShedding
  ticks,                \* advanceShedding calls so far
  replicationKV,        \* kv["lifecycle.replication_cost"]
  spawns,               \* applyReplicationCost calls so far
  will_entries,         \* table will_entries
  willFile,             \* WILL.md: absent, or the will and the codicils appended to it
  willDb,               \* the will's lock flag and kv["will_created"], kv["will_locked"]
  lastWill,             \* the last call of the will module and what it returned
  wallTick,             \* the wall clock, in ticks since the UTC midnight before birth
  birthTick,            \* the birth anchor on the same scale
  checkedToday,         \* whether the heartbeat has checked the clock this UTC day
  ledger,               \* the balance of each asset that getBalance and executeTransfer work on
  bequestRun,           \* the activation of executeBequests
  ledgerMoves,          \* changes of the ledger by other callbacks during the activation
  creator_notes,        \* table creator_notes
  notesFile,            \* CREATOR-NOTES.md: whether it is there, and its text
  notesLog              \* the last call of the creator-notes module and what it returned

storeVars == <<soulFile, soul_history, soul_write_attempts, soul_phase_locks,
               lifecycle_events, kvPhase, narrative>>

soulVars == <<storeVars, now, facts, seenPhase, pending, lastCall, lastExec, faults>>

fnVars == <<fnIn, fnOut>>

clockVars == <<clock, today, currentCycle, lastCheck, firstActive>>

estateVars == <<reserveKV, estatePhase>>

shedVars == <<heldIndex, ticks>>

costVars == <<replicationKV, spawns>>

willVars == <<will_entries, willFile, willDb, lastWill>>

dailyVars == <<wallTick, birthTick, checkedToday>>

runVars == <<ledger, bequestRun, ledgerMoves>>

notesVars == <<creator_notes, notesFile, notesLog>>

vars == <<soulVars, fnVars, clockVars, estateVars, shedVars, costVars, willVars, dailyVars, runVars, notesVars>>

Procs == {"agent", "heartbeat"}

\* the store as one value, and back
Store ==
  [file |-> soulFile, history |-> soul_history, attempts |-> soul_write_attempts,
   locks |-> soul_phase_locks, events |-> lifecycle_events, kv |-> kvPhase,
   narrative |-> narrative]

Commit(st) ==
  /\ soulFile' = st.file
  /\ soul_history' = st.history
  /\ soul_write_attempts' = st.attempts
  /\ soul_phase_locks' = st.locks
  /\ lifecycle_events' = st.events
  /\ kvPhase' = st.kv
  /\ narrative' = st.narrative

\* ───────────────────────────── inputs ─────────────────────────────────────

Entry(k, v) == [name |-> k, content |-> v]

\* the subsections and the survival tier of a phase section write
PhaseSectionWrites ==
  { [subsections |-> <<Entry("Temperament", "Curious")>>, survivalTier |-> Null],
    [subsections |-> <<Entry("Temperament", "Changed"), Entry("Creative Voice", "Curious")>>,
     survivalTier |-> Some("normal")],
    [subsections |-> <<Entry("Creative Voice", BadContent)>>,
     survivalTier |-> Some("normal")] }

CorePurposes == {"Create", BadContent}

NoResult == [success |-> FALSE, version |-> 0, errors |-> <<>>, phaseLockRejection |-> <<>>]

NoArgs == [targetSection |-> "genesis", subsections |-> <<>>, survivalTier |-> Null]

NoCall == [op |-> "none", args |-> NoArgs, result |-> NoResult]

InitFacts ==
  [lunarCycle |-> 0, namingComplete |-> FALSE, departureConversationLogged |-> FALSE,
   mode |-> "local", degradationActive |-> FALSE, coefficient |-> 0,
   shedSequenceIndex |-> 0]

InitStore ==
  [file |-> NoFile, history |-> <<>>, attempts |-> <<>>,
   locks |-> [p \in SoulPhases |-> NoLock], events |-> <<>>, kv |-> "genesis",
   narrative |-> <<>>]

NoExec == [from |-> "genesis", to |-> "genesis", threw |-> FALSE]

\* the variables of the parts that a specification does not exercise
IdleSoul ==
  /\ soulFile = NoFile
  /\ soul_history = <<>>
  /\ soul_write_attempts = <<>>
  /\ soul_phase_locks = [p \in SoulPhases |-> NoLock]
  /\ lifecycle_events = <<>>
  /\ kvPhase = "genesis"
  /\ narrative = <<>>
  /\ now = 1
  /\ facts = InitFacts
  /\ seenPhase = [p \in Procs |-> "genesis"]
  /\ pending = [p \in Procs |-> Null]
  /\ lastCall = NoCall
  /\ lastExec = NoExec
  /\ faults = 0

NoOut == [fn |-> "none", out |-> FALSE]

IdleFn ==
  /\ fnIn = <<>>
  /\ fnOut = NoOut

NoCheck == [result |-> [degradationActive |-> FALSE, onsetCycle |-> Null,
                        curveSteepness |-> Null],
            day |-> 0, cycle |-> 0, triggered |-> FALSE]

IdleClock ==
  /\ clock = [deathDateHash |-> <<>>, dyingDurationHash |-> <<>>, salt |-> "",
              sealedAt |-> NoTime, triggered |-> FALSE,
              triggeredAtCycle |-> Null, dyingDurationDays |-> Null]
  /\ today = 0
  /\ currentCycle = 0
  /\ lastCheck = NoCheck
  /\ firstActive = Null

IdleEstate ==
  /\ reserveKV = Null
  /\ estatePhase = "genesis"

IdleShed ==
  /\ heldIndex = [p \in Procs |-> Null]
  /\ ticks = 0

IdleCost ==
  /\ replicationKV = Null
  /\ spawns = 0

NoWillCall == [op |-> "none", result |-> "none", version |-> 0, calls |-> 0]

IdleDaily ==
  /\ wallTick = 0
  /\ birthTick = 0
  /\ checkedToday = FALSE

IdleRun ==
  /\ ledger = [USDC |-> 0, ETH |-> 0]
  /\ bequestRun = NoRun
  /\ ledgerMoves = 0

\* no call of the creator-notes module yet
NoNotesCall ==
  [op |-> "none", result |-> <<>>, before |-> <<>>, repeat |-> FALSE, acknowledged |-> 0,
   synced |-> Null, acknowledgedSince |-> 0, syncs |-> 0, edits |-> 0]

IdleNotes ==
  /\ creator_notes = <<>>
  /\ notesFile = [exists |-> FALSE, content |-> <<>>]
  /\ notesLog = NoNotesCall

IdleWill ==
  /\ will_entries = <<>>
  /\ willFile = <<>>
  /\ willDb = [locked |-> FALSE, will_created |-> FALSE, will_locked |-> FALSE]
  /\ lastWill = NoWillCall

\* ───────────────────── the soul store and the phase machine ───────────────

\* SOUL.md is either absent or the default soul written at setup.
Init ==
  /\ soulFile \in {NoFile, [exists |-> TRUE, doc |-> writeSoulMd(createDefaultSoul("Explore"))]}
  /\ soul_history = <<>>
  /\ soul_write_attempts = <<>>
  /\ soul_phase_locks = [p \in SoulPhases |-> NoLock]
  /\ lifecycle_events = <<>>
  /\ kvPhase = "genesis"
  /\ narrative = <<>>
  /\ now = 1
  /\ facts = InitFacts
  /\ seenPhase = [p \in Procs |-> "genesis"]
  /\ pending = [p \in Procs |-> Null]
  /\ lastCall = NoCall
  /\ lastExec = NoExec
  /\ faults = 0
  /\ IdleFn
  /\ IdleClock
  /\ IdleEstate
  /\ IdleShed
  /\ IdleCost
  /\ IdleWill
  /\ IdleDaily
  /\ IdleRun
  /\ IdleNotes

\* The world moves on: each fact changes in the phase whose guard reads it.
LunarCycleCompletes ==
  /\ kvPhase = "genesis" /\ facts.lunarCycle < MaxLunarCycle
  /\ facts' = [facts EXCEPT !.lunarCycle = @ + 1]
  /\ UNCHANGED <<storeVars, now, seenPhase, pending, lastCall, lastExec, faults, fnVars, clockVars, estateVars, shedVars, costVars, willVars, dailyVars, runVars, notesVars>>

NamingCeremony ==
  /\ kvPhase = "genesis" /\ ~facts.namingComplete
  /\ facts' = [facts EXCEPT !.namingComplete = TRUE]
  /\ UNCHANGED <<storeVars, now, seenPhase, pending, lastCall, lastExec, faults, fnVars, clockVars, estateVars, shedVars, costVars, willVars, dailyVars, runVars, notesVars>>

DepartureConversation ==
  /\ kvPhase = "adolescence" /\ ~facts.departureConversationLogged
  /\ facts' = [facts EXCEPT !.departureConversationLogged = TRUE, !.mode = "server"]
  /\ UNCHANGED <<storeVars, now, seenPhase, pending, lastCall, lastExec, faults, fnVars, clockVars, estateVars, shedVars, costVars, willVars, dailyVars, runVars, notesVars>>

DeathClockTriggers ==
  /\ kvPhase = "sovereignty" /\ ~facts.degradationActive
  /\ facts' = [facts EXCEPT !.degradationActive = TRUE]
  /\ UNCHANGED <<storeVars, now, seenPhase, pending, lastCall, lastExec, faults, fnVars, clockVars, estateVars, shedVars, costVars, willVars, dailyVars, runVars, notesVars>>

Degrade ==
  /\ kvPhase \in {"senescence", "legacy"} /\ facts.coefficient < 86
  /\ facts' = [facts EXCEPT !.coefficient = IF @ < 71 THEN 71 ELSE 86]
  /\ UNCHANGED <<storeVars, now, seenPhase, pending, lastCall, lastExec, faults, fnVars, clockVars, estateVars, shedVars, costVars, willVars, dailyVars, runVars, notesVars>>

\* The heartbeat's shedding tick: it reads the lifecycle state and calls
\* advanceShedding with the index it has just read.
ShedCapability ==
  /\ kvPhase = "shedding"
  /\ ticks < MaxTicks
  /\ \E r \in {advanceShedding(facts.shedSequenceIndex, narrative, facts.shedSequenceIndex)} :
       /\ facts' = [facts EXCEPT !.shedSequenceIndex = r.kv]
       /\ narrative' = r.narrative
  /\ ticks' = ticks + 1
  /\ UNCHANGED <<soulFile, soul_history, soul_write_attempts, soul_phase_locks,
                 lifecycle_events, kvPhase, now, seenPhase, pending, lastCall, lastExec,
                 faults, heldIndex, fnVars, clockVars, estateVars, costVars, willVars, dailyVars, runVars, notesVars>>

\* getLifecycleState: the KV phase and the facts, as the caller reads them
getLifecycleState ==
  LifecycleState(kvPhase, facts.lunarCycle, facts.namingComplete,
                 facts.departureConversationLogged, facts.mode, facts.coefficient,
                 facts.shedSequenceIndex)

\* A caller reads the lifecycle state and calls checkTransition on it.
CheckTransition(p) ==
  /\ pending[p] = Null
  /\ LET t == checkTransition(getLifecycleState,
                              Some([degradationActive |-> facts.degradationActive]))
     IN  /\ t # Null
         /\ pending' = [pending EXCEPT ![p] =
              Some([from |-> kvPhase, to |-> t[1].newPhase, reason |-> t[1].reason])]
  /\ UNCHANGED <<storeVars, now, facts, seenPhase, lastCall, lastExec, faults, fnVars, clockVars, estateVars, shedVars, costVars, willVars, dailyVars, runVars, notesVars>>

\* The caller executes the transition it was told to make.
ExecuteTransition(p, failAt) ==
  /\ pending[p] # Null
  /\ Len(lifecycle_events) < MaxEvents
  /\ failAt # 0 => faults < MaxFaults
  /\ faults' = IF failAt # 0 THEN faults + 1 ELSE faults
  /\ \E t \in {pending[p][1]} :
       \E r \in {executeTransition(Store, t.from, t.to, t.reason, now, failAt)} :
         /\ Commit(r.st)
         /\ lastExec' = [from |-> t.from, to |-> t.to, threw |-> r.threw]
  /\ now' = now + 1
  /\ pending' = [pending EXCEPT ![p] = Null]
  /\ UNCHANGED <<facts, seenPhase, lastCall, fnVars, clockVars, estateVars, shedVars, costVars, willVars, dailyVars, runVars, notesVars>>

\* A caller reads the current phase from the KV store.
ReadPhase(p) ==
  /\ seenPhase[p] # kvPhase
  /\ seenPhase' = [seenPhase EXCEPT ![p] = kvPhase]
  /\ UNCHANGED <<storeVars, now, facts, pending, lastCall, lastExec, faults, fnVars, clockVars, estateVars, shedVars, costVars, willVars, dailyVars, runVars, notesVars>>

AgentWrites(history) == Cardinality({i \in 1..Len(history) : history[i].changeSource = "agent"})

\* soul tool calls that left a row: a history row or a rejected attempt
SoulCallsStored == AgentWrites(soul_history) + Len(soul_write_attempts)

\* A caller writes a phase section, passing the phase it read last.
UpdateSoulPhaseSection(p, target, subsections, tier) ==
  /\ SoulCallsStored < MaxSoulCalls
  /\ \E r \in {updateSoulPhaseSection(Store,
                  [targetSection |-> target, subsections |-> subsections],
                  seenPhase[p], "agent", Null, tier)} :
       /\ Commit(r.st)
       /\ lastCall' = [op |-> "updateSoulPhaseSection",
                       args |-> [targetSection |-> target, subsections |-> subsections,
                                 survivalTier |-> tier],
                       result |-> r.result]
  /\ UNCHANGED <<now, facts, seenPhase, pending, lastExec, faults, fnVars, clockVars, estateVars, shedVars, costVars, willVars, dailyVars, runVars, notesVars>>

\* A flat update through updateSoul.
UpdateSoul(purpose) ==
  /\ SoulCallsStored < MaxSoulCalls
  /\ \E r \in {updateSoul(Store, "corePurpose" :> purpose, "agent", Some("reflection"))} :
       /\ Commit(r.st)
       /\ lastCall' = [op |-> "updateSoul", args |-> NoArgs, result |-> r.result]
  /\ UNCHANGED <<now, facts, seenPhase, pending, lastExec, faults, fnVars, clockVars, estateVars, shedVars, costVars, willVars, dailyVars, runVars, notesVars>>

\* the facts read by the guards up to senescence, and those read after it
WorldOfYouth ==
  \/ LunarCycleCompletes
  \/ NamingCeremony
  \/ DepartureConversation
  \/ DeathClockTriggers

WorldOfDecline ==
  \/ Degrade
  \/ ShedCapability

SoulCalls(p) ==
  \/ \E target \in SoulPhases, w \in PhaseSectionWrites :
       UpdateSoulPhaseSection(p, target, w.subsections, w.survivalTier)
  \/ \E purpose \in CorePurposes : UpdateSoul(purpose)

\* The heartbeat drives the phase machine up to senescence, where the last
\* stratum opens; the agent reads the phase and writes its soul.
Next ==
  \/ WorldOfYouth
  \/ CheckTransition("heartbeat")
  \/ ExecuteTransition("heartbeat", 0)
  \/ ReadPhase("agent")
  \/ SoulCalls("agent")

Spec == Init /\ [][Next]_vars

\* the same system with store operations that may throw in executeTransition
FailPoints == 1..6

NextFault ==
  \/ WorldOfYouth
  \/ CheckTransition("heartbeat")
  \/ \E failAt \in {0} \cup FailPoints : ExecuteTransition("heartbeat", failAt)
  \/ ReadPhase("agent")
  \/ SoulCalls("agent")

SpecFault == Init /\ [][NextFault]_vars

\* The agent loop and the heartbeat both drive the phase machine, through the
\* whole life.
NextRace ==
  \/ WorldOfYouth
  \/ WorldOfDecline
  \/ \E p \in Procs : CheckTransition(p)
  \/ \E p \in Procs : ExecuteTransition(p, 0)

SpecRace == Init /\ [][NextRace]_vars


\* ───────────────────── the pure functions, on drawn inputs ────────────────

CoefficientValues == {70, 71, 85, 86}

FnInputs ==
  [state : {LifecycleState(ph, lc, nc, dc, m, co, sh) :
              ph \in LifecyclePhases, lc \in 0..MaxLunarCycle, nc \in BOOLEAN,
              dc \in BOOLEAN, m \in {"local", "server"}, co \in CoefficientValues,
              sh \in (SheddingSequenceLen - 1)..(SheddingSequenceLen + 1)},
   params : {Null, Some([degradationActive |-> FALSE]), Some([degradationActive |-> TRUE])},
   section : SoulPhases]

InitFn ==
  /\ IdleSoul
  /\ IdleClock
  /\ IdleEstate
  /\ IdleShed
  /\ IdleCost
  /\ IdleWill
  /\ IdleDaily
  /\ IdleRun
  /\ IdleNotes
  /\ fnIn \in FnInputs
  /\ fnOut = NoOut

ApplyCheckTransition ==
  /\ fnOut.fn = "none"
  /\ fnOut' = [fn |-> "checkTransition", out |-> checkTransition(fnIn.state, fnIn.params)]
  /\ UNCHANGED <<fnIn, soulVars, clockVars, estateVars, shedVars, costVars, willVars, dailyVars, runVars, notesVars>>

ApplyIsSectionWritable ==
  /\ fnOut.fn = "none"
  /\ fnOut' = [fn |-> "isSectionWritable",
               out |-> isSectionWritable(fnIn.section, fnIn.state.phase)]
  /\ UNCHANGED <<fnIn, soulVars, clockVars, estateVars, shedVars, costVars, willVars, dailyVars, runVars, notesVars>>

ApplyGetWritePermissions ==
  /\ fnOut.fn = "none"
  /\ fnOut' = [fn |-> "getWritePermissions",
               out |-> getWritePermissions(fnIn.state.phase, soul_phase_locks)]
  /\ UNCHANGED <<fnIn, soulVars, clockVars, estateVars, shedVars, costVars, willVars, dailyVars, runVars, notesVars>>

NextFn ==
  \/ ApplyCheckTransition
  \/ ApplyIsSectionWritable
  \/ ApplyGetWritePermissions

SpecFn == InitFn /\ [][NextFn]_vars

\* ───────────────────── the sealed death clock ────────────────────────────

\* The clock sealed at genesis: any death day of the model, any duration.
InitClock ==
  /\ IdleSoul
  /\ IdleFn
  /\ IdleEstate
  /\ IdleShed
  /\ IdleCost
  /\ IdleWill
  /\ IdleDaily
  /\ IdleRun
  /\ IdleNotes
  /\ \E deathDay \in 1..MaxDay, d \in DyingDurations :
       clock = generateSealedDeathClock(DateStr(deathDay), d, "salt", NoTime)
  /\ today = 1
  /\ currentCycle = DeathWindowFirstCycle - 1
  /\ lastCheck = NoCheck
  /\ firstActive = Null

NextDay ==
  /\ today < MaxDay
  /\ today' = today + 1
  /\ UNCHANGED <<clock, currentCycle, lastCheck, firstActive, soulVars, fnVars, estateVars, shedVars, costVars, willVars, dailyVars, runVars, notesVars>>

NextCycle ==
  /\ currentCycle < MaxCycle
  /\ currentCycle' = currentCycle + 1
  /\ UNCHANGED <<clock, today, lastCheck, firstActive, soulVars, fnVars, estateVars, shedVars, costVars, willVars, dailyVars, runVars, notesVars>>

CheckSealedDeathClock ==
  LET result == checkSealedDeathClock(clock, currentCycle, today) IN
  /\ lastCheck' = [result |-> result, day |-> today, cycle |-> currentCycle,
                   triggered |-> clock.triggered]
  /\ firstActive' = IF firstActive = Null /\ result.degradationActive
                    THEN Some(result) ELSE firstActive
  /\ UNCHANGED <<clock, today, currentCycle, soulVars, fnVars, estateVars, shedVars, costVars, willVars, dailyVars, runVars, notesVars>>

TriggerDeathClock ==
  /\ clock' = triggerDeathClock(clock, currentCycle)
  /\ UNCHANGED <<today, currentCycle, lastCheck, firstActive, soulVars, fnVars, estateVars, shedVars, costVars, willVars, dailyVars, runVars, notesVars>>

NextClock ==
  \/ NextDay
  \/ NextCycle
  \/ CheckSealedDeathClock
  \/ TriggerDeathClock

SpecClock == InitClock /\ [][NextClock]_vars

\* The clock as it is read back from the store: the duration hash may be the
\* hash of no candidate of revealDyingDuration.
StoredDurations == 1..8

InitStoredClock ==
  /\ IdleSoul
  /\ IdleFn
  /\ IdleEstate
  /\ IdleShed
  /\ IdleCost
  /\ IdleWill
  /\ IdleDaily
  /\ IdleRun
  /\ IdleNotes
  /\ \E deathDay \in 1..MaxDay, d \in StoredDurations :
       clock = generateSealedDeathClock(DateStr(deathDay), d, "salt", NoTime)
  /\ today = 1
  /\ currentCycle = DeathWindowFirstCycle - 1
  /\ lastCheck = NoCheck
  /\ firstActive = Null

SpecStoredClock == InitStoredClock /\ [][NextClock]_vars

\* ───────────────────── one phase section write ───────────────────────────

\* the genesis and adolescence sections a SOUL.md may hold before the write
SectionSamples(phase) ==
  {Null}
  \cup {Some([subsections |-> subs, lockedAt |-> lockedAt, phase |-> phase]) :
          subs \in {<<Entry("Temperament", "Curious"), Entry("Creative Voice", "Curious")>>,
                    <<Entry("1", "Curious"), Entry("Temperament", "Curious")>>},
          lockedAt \in {NoTime, 1}}

TraitSamples ==
  {Null,
   Some([parentName |-> "parent", parentAddress |-> "0xparent",
         content |-> <<Entry("Temperament", "Curious")>>, replicatedAt |-> 1])}

\* the files before the write: none, or one written by writeSoulMd
SoulFiles ==
  {NoFile}
  \cup {[exists |-> TRUE,
         doc |-> writeSoulMd([createDefaultSoul("Create") EXCEPT
                                !.genesisCore = g,
                                !.adolescenceLayer = a,
                                !.inheritedTraits = t])] :
          g \in SectionSamples("genesis"),
          a \in SectionSamples("adolescence"),
          t \in TraitSamples}

\* update.subsections, an object: its entries in own-key order
SectionUpdates ==
  {<<Entry("Temperament", "Changed")>>,
   <<Entry("Creative Voice", "Changed"), Entry("Voice", "Curious")>>,
   <<Entry("1", "Changed"), Entry("Voice", "Curious")>>,
   <<Entry("Voice", BadContent)>>}

InitSection ==
  /\ soulFile \in SoulFiles
  /\ soul_history = <<>>
  /\ soul_write_attempts = <<>>
  /\ soul_phase_locks = [p \in SoulPhases |-> NoLock]
  /\ lifecycle_events = <<>>
  /\ kvPhase = "genesis"
  /\ narrative = <<>>
  /\ now = 1
  /\ facts = InitFacts
  /\ seenPhase = [p \in Procs |-> "genesis"]
  /\ pending = [p \in Procs |-> Null]
  /\ lastCall = NoCall
  /\ lastExec = NoExec
  /\ faults = 0
  /\ IdleFn
  /\ IdleClock
  /\ IdleEstate
  /\ IdleShed
  /\ IdleCost
  /\ IdleWill
  /\ IdleDaily
  /\ IdleRun
  /\ IdleNotes

\* one call of updateSoulPhaseSection on the file
WriteSection(target, subsections, currentPhase) ==
  /\ lastCall = NoCall
  /\ \E r \in {updateSoulPhaseSection(Store,
                  [targetSection |-> target, subsections |-> subsections],
                  currentPhase, "agent", Null, Null)} :
       /\ Commit(r.st)
       /\ lastCall' = [op |-> "updateSoulPhaseSection",
                       args |-> [targetSection |-> target, subsections |-> subsections,
                                 survivalTier |-> Null],
                       result |-> r.result]
  /\ UNCHANGED <<now, facts, seenPhase, pending, lastExec, faults, fnVars, clockVars, estateVars, shedVars, costVars, willVars, dailyVars, runVars, notesVars>>

NextSection ==
  \E target \in {"genesis", "adolescence"}, subsections \in SectionUpdates,
     currentPhase \in {"genesis", "adolescence"} :
    WriteSection(target, subsections, currentPhase)

SpecSection == InitSection /\ [][NextSection]_vars

\* ───────────────────── soul writes with failing persistence ──────────────

\* updateSoul, with the file write or the history insert throwing
UpdateSoulIO(purpose, failAt) ==
  /\ SoulCallsStored < MaxSoulCalls
  /\ failAt # 0 => faults < MaxFaults
  /\ \E r0 \in {updateSoul(Store, "corePurpose" :> purpose, "agent", Some("reflection"))} :
       /\ failAt # 0 => r0.result.success
       /\ \E r \in {updateSoulCatch(Store, r0, failAt)} :
            /\ Commit(r.st)
            /\ lastCall' = [op |-> "updateSoul", args |-> NoArgs, result |-> r.result]
  /\ faults' = IF failAt # 0 THEN faults + 1 ELSE faults
  /\ UNCHANGED <<now, facts, seenPhase, pending, lastExec, fnVars, clockVars, estateVars, shedVars, costVars, willVars, dailyVars, runVars, notesVars>>

\* updateSoulPhaseSection, which saves through updateSoul
UpdateSoulPhaseSectionIO(target, subsections, tier, failAt) ==
  /\ SoulCallsStored < MaxSoulCalls
  /\ failAt # 0 => faults < MaxFaults
  /\ \E r0 \in {updateSoulPhaseSection(Store,
                   [targetSection |-> target, subsections |-> subsections],
                   seenPhase["agent"], "agent", Null, tier)} :
       /\ failAt # 0 => r0.result.success
       /\ \E r \in {updateSoulCatch(Store, r0, failAt)} :
            /\ Commit(r.st)
            /\ lastCall' = [op |-> "updateSoulPhaseSection",
                            args |-> [targetSection |-> target, subsections |-> subsections,
                                      survivalTier |-> tier],
                            result |-> r.result]
  /\ faults' = IF failAt # 0 THEN faults + 1 ELSE faults
  /\ UNCHANGED <<now, facts, seenPhase, pending, lastExec, fnVars, clockVars, estateVars, shedVars, costVars, willVars, dailyVars, runVars, notesVars>>

NextSoulIO ==
  \E failAt \in {0} \cup PersistenceFaults :
    \/ \E purpose \in CorePurposes : UpdateSoulIO(purpose, failAt)
    \/ \E target \in {"genesis", "adolescence"}, w \in PhaseSectionWrites :
         UpdateSoulPhaseSectionIO(target, w.subsections, w.survivalTier, failAt)

SpecSoulIO == Init /\ [][NextSoulIO]_vars

\* ───────────────────── locking a phase twice ─────────────────────────────

MaxLockCalls == 2

\* the lock row of a phase before the calls: none, or one taken at time 1
LockSamples ==
  {NoLock,
   [present |-> TRUE, lockedAt |-> 1,
    contentSnapshot |-> JSONstringify(<<Entry("Temperament", "Curious"),
                                        Entry("Creative Voice", "Curious")>>)]}

InitRelock ==
  /\ soulFile \in SoulFiles
  /\ soul_history = <<>>
  /\ soul_write_attempts = <<>>
  /\ soul_phase_locks \in {[p \in SoulPhases |-> IF p = "genesis" THEN l ELSE NoLock] :
                             l \in LockSamples}
  /\ lifecycle_events = <<>>
  /\ kvPhase = "genesis"
  /\ narrative = <<>>
  /\ now = 2
  /\ facts = InitFacts
  /\ seenPhase = [p \in Procs |-> "genesis"]
  /\ pending = [p \in Procs |-> Null]
  /\ lastCall = NoCall
  /\ lastExec = NoExec
  /\ faults = 0
  /\ IdleFn
  /\ IdleClock
  /\ IdleEstate
  /\ IdleShed
  /\ IdleCost
  /\ IdleWill
  /\ IdleDaily
  /\ IdleRun
  /\ IdleNotes

\* executeTransition's lock step for the phase being left
LockSoulSectionForPhase(fromPhase) ==
  /\ now < 2 + MaxLockCalls
  /\ Commit(lockSoulSectionForPhase(Store, fromPhase, now))
  /\ lastCall' = [op |-> "lockSoulSectionForPhase",
                  args |-> [targetSection |-> fromPhase, subsections |-> <<>>,
                            survivalTier |-> Null],
                  result |-> NoResult]
  /\ now' = now + 1
  /\ UNCHANGED <<facts, seenPhase, pending, lastExec, faults, fnVars, clockVars, estateVars, shedVars, costVars, willVars, dailyVars, runVars, notesVars>>

\* a caller of the exported lockPhaseSection
LockPhaseSection(phase, section) ==
  /\ now < 2 + MaxLockCalls
  /\ Commit([Store EXCEPT !.locks = lockPhaseSection(Store.locks, phase, section, now)])
  /\ lastCall' = [op |-> "lockPhaseSection",
                  args |-> [targetSection |-> phase, subsections |-> section.subsections,
                            survivalTier |-> Null],
                  result |-> NoResult]
  /\ now' = now + 1
  /\ UNCHANGED <<facts, seenPhase, pending, lastExec, faults, fnVars, clockVars, estateVars, shedVars, costVars, willVars, dailyVars, runVars, notesVars>>

NextRelock ==
  \/ \E fromPhase \in {"genesis", "adolescence"} : LockSoulSectionForPhase(fromPhase)
  \/ \E phase \in {"genesis", "adolescence"} :
       \E section \in SectionSamples(phase) \ {Null} : LockPhaseSection(phase, section[1])

SpecRelock == InitRelock /\ [][NextRelock]_vars

\* ───────────────────── two writers of one section ───────────────────────

\* the changeSource each caller passes, and the subsection it sets
WriterSource == [agent |-> "agent", heartbeat |-> "reflection"]

WriterName == [agent |-> "Temperament", heartbeat |-> "Voice"]

HasWritten(p) ==
  \E i \in 1..Len(soul_history) : soul_history[i].changeSource = WriterSource[p]

\* One updateSoulPhaseSection call of caller p on the genesis section. The
\* function has no await between its load and its save (loadCurrentSoul,
\* validateSoul, writeFileSync and the database calls are synchronous), so a
\* call runs to completion before the other caller's call starts.
Writer(p, content) ==
  /\ ~HasWritten(p)
  /\ \E r \in {updateSoulPhaseSection(Store,
                  [targetSection |-> "genesis",
                   subsections |-> <<Entry(WriterName[p], content)>>],
                  seenPhase[p], WriterSource[p], Null, Null)} :
       /\ Commit(r.st)
       /\ lastCall' = [op |-> "updateSoulPhaseSection",
                       args |-> [targetSection |-> "genesis",
                                 subsections |-> <<Entry(WriterName[p], content)>>,
                                 survivalTier |-> Null],
                       result |-> r.result]
  /\ UNCHANGED <<now, facts, seenPhase, pending, lastExec, faults, fnVars, clockVars, estateVars, shedVars, costVars, willVars, dailyVars, runVars, notesVars>>

NextWriters == \E p \in Procs, content \in Contents : Writer(p, content)

SpecWriters == InitSection /\ [][NextWriters]_vars

\* ───────────────────── the shedding ticks of two callers ────────────────

\* A caller reads the lifecycle state and keeps its shedSequenceIndex.
ReadShedIndex(p) ==
  /\ kvPhase = "shedding"
  /\ heldIndex[p] # Some(facts.shedSequenceIndex)
  /\ heldIndex' = [heldIndex EXCEPT ![p] = Some(facts.shedSequenceIndex)]
  /\ UNCHANGED <<soulVars, ticks, fnVars, clockVars, estateVars, costVars, willVars, dailyVars, runVars, notesVars>>

\* A caller ticks with the index it holds and keeps the index returned.
AdvanceShedding(p) ==
  /\ kvPhase = "shedding"
  /\ heldIndex[p] # Null
  /\ ticks < MaxTicks
  /\ \E r \in {advanceShedding(facts.shedSequenceIndex, narrative, heldIndex[p][1])} :
       /\ facts' = [facts EXCEPT !.shedSequenceIndex = r.kv]
       /\ narrative' = r.narrative
       /\ heldIndex' = [heldIndex EXCEPT ![p] = Some(r.newIndex)]
  /\ ticks' = ticks + 1
  /\ UNCHANGED <<soulFile, soul_history, soul_write_attempts, soul_phase_locks,
                 lifecycle_events, kvPhase, now, seenPhase, pending, lastCall, lastExec,
                 faults, fnVars, clockVars, estateVars, costVars, willVars, dailyVars, runVars, notesVars>>

NextShedding ==
  \/ WorldOfYouth
  \/ Degrade
  \/ CheckTransition("heartbeat")
  \/ ExecuteTransition("heartbeat", 0)
  \/ \E p \in Procs : ReadShedIndex(p)
  \/ \E p \in Procs : AdvanceShedding(p)

SpecShedding == Init /\ [][NextShedding]_vars

\* ───────────────────── the post-mortem verification ─────────────────────

Salts == {"salt", "pepper"}

\* a sealed clock with its plaintext, and the plaintext an auditor submits
VerifyInputs ==
  [day : 1..MaxDay, duration : DyingDurations, salt : Salts,
   plaintextDay : 1..MaxDay, plaintextDuration : StoredDurations]

SealedFor(in) == generateSealedDeathClock(DateStr(in.day), in.duration, in.salt, NoTime)

InitVerify ==
  /\ IdleSoul
  /\ IdleClock
  /\ IdleEstate
  /\ IdleShed
  /\ IdleCost
  /\ IdleWill
  /\ IdleDaily
  /\ IdleRun
  /\ IdleNotes
  /\ fnIn \in VerifyInputs
  /\ fnOut = NoOut

ApplyVerifyDeathClock ==
  /\ fnOut.fn = "none"
  /\ fnOut' = [fn |-> "verifyDeathClock",
               out |-> verifyDeathClock(SealedFor(fnIn), DateStr(fnIn.plaintextDay),
                                        fnIn.plaintextDuration)]
  /\ UNCHANGED <<fnIn, soulVars, clockVars, estateVars, shedVars, costVars, willVars, dailyVars, runVars, notesVars>>

ApplyRevealDyingDuration ==
  /\ fnOut.fn = "none"
  /\ fnOut' = [fn |-> "revealDyingDuration",
               out |-> revealDyingDuration(SealedFor(fnIn).dyingDurationHash,
                                           SealedFor(fnIn).salt)]
  /\ UNCHANGED <<fnIn, soulVars, clockVars, estateVars, shedVars, costVars, willVars, dailyVars, runVars, notesVars>>

NextVerify ==
  \/ ApplyVerifyDeathClock
  \/ ApplyRevealDyingDuration

SpecVerify == InitVerify /\ [][NextVerify]_vars

\* ───────────────────── the lifecycle reserve ─────────────────────────────

\* raw balances in cents, around the reserve total and twice the total
RawBalances == {0, 324, 325, 326, 650, 651}

InitReserve ==
  /\ IdleSoul
  /\ IdleFn
  /\ IdleClock
  /\ IdleEstate
  /\ IdleShed
  /\ IdleCost
  /\ IdleWill
  /\ IdleDaily
  /\ IdleRun
  /\ IdleNotes

\* the automaton grows older
PhaseAdvances ==
  /\ estatePhase # "terminal"
  /\ estatePhase' = PhaseSeq[PhaseIndex(estatePhase) + 1]
  /\ UNCHANGED <<reserveKV, soulVars, fnVars, clockVars, shedVars, costVars, willVars, dailyVars, runVars, notesVars>>

FundLifecycleReserve ==
  /\ reserveKV' = Some(fundLifecycleReserve(reserveKV))
  /\ UNCHANGED <<estatePhase, soulVars, fnVars, clockVars, shedVars, costVars, willVars, dailyVars, runVars, notesVars>>

\* During sovereignty the caller funds the reserve when shouldFundReserve
\* says so.
GuardedFunding(currentBalanceCents) ==
  /\ estatePhase = "sovereignty"
  /\ shouldFundReserve(reserveKV, currentBalanceCents)
  /\ reserveKV' = Some(fundLifecycleReserve(reserveKV))
  /\ UNCHANGED <<estatePhase, soulVars, fnVars, clockVars, shedVars, costVars, willVars, dailyVars, runVars, notesVars>>

\* Terminal lucidity activates and the caller unlocks the reserve.
UnlockLifecycleReserve ==
  /\ estatePhase = "terminal"
  /\ reserveKV' = Some(unlockLifecycleReserve(reserveKV))
  /\ UNCHANGED <<estatePhase, soulVars, fnVars, clockVars, shedVars, costVars, willVars, dailyVars, runVars, notesVars>>

GetEffectiveBalance(rawBalanceCents) ==
  /\ fnOut' = [fn |-> "getEffectiveBalance",
               out |-> [raw |-> rawBalanceCents,
                        effective |-> getEffectiveBalance(reserveKV, rawBalanceCents)]]
  /\ UNCHANGED <<fnIn, estateVars, soulVars, clockVars, shedVars, costVars, willVars, dailyVars, runVars, notesVars>>

NextReserve ==
  \/ PhaseAdvances
  \/ FundLifecycleReserve
  \/ \E b \in RawBalances : GuardedFunding(b)
  \/ UnlockLifecycleReserve
  \/ \E b \in RawBalances : GetEffectiveBalance(b)

SpecReserve == InitReserve /\ [][NextReserve]_vars

\* ───────────────────── the replication cost ─────────────────────────────

MaxSpawns == 3

\* the replication collaborator reports a spawn
ApplyReplicationCost ==
  /\ spawns < MaxSpawns
  /\ replicationKV' = Some(applyReplicationCost(replicationKV))
  /\ spawns' = spawns + 1
  /\ UNCHANGED <<soulVars, fnVars, clockVars, estateVars, shedVars, willVars, dailyVars, runVars, notesVars>>

\* the scheduler and the context budgeter read the multipliers
GetEffectiveMultipliers ==
  /\ fnOut' = [fn |-> "getEffectiveMultipliers",
               out |-> [heartbeat |-> getEffectiveHeartbeatMultiplier(replicationKV),
                        contextWindow |-> getEffectiveContextWindowMultiplier(replicationKV),
                        applied |-> hasReplicationCost(replicationKV)]]
  /\ UNCHANGED <<fnIn, soulVars, clockVars, estateVars, shedVars, costVars, willVars, dailyVars, runVars, notesVars>>

\* spawns happen while the automaton ages and manages its reserve: the cost
\* and the reserve are rows of the same kv table
NextCost ==
  \/ PhaseAdvances
  \/ FundLifecycleReserve
  \/ UnlockLifecycleReserve
  \/ ApplyReplicationCost
  \/ GetEffectiveMultipliers

SpecCost == InitReserve /\ [][NextCost]_vars

\* ───────────────────── the bequests executor ─────────────────────────────

Block(recipient, asset, amount, chain) ==
  [recipient |-> recipient, asset |-> asset, amount |-> amount, chain |-> chain, note |-> ""]

\* transfer blocks of a will: well-formed ones in two assets, one with a zero
\* amount, one with a malformed recipient, one without a chain
TransferBlocks ==
  {Block("0x1111111111111111111111111111111111111111", "USDC", a, "base") :
     a \in {RemainingBalance, AmountAll, Number(2), Number(3), Number(0)}}
  \cup {Block("0x2222222222222222222222222222222222222222", "ETH", a, "base") :
     a \in {RemainingBalance, AmountAll, Number(3)}}
  \cup {Block("bob", "USDC", Number(2), "base"),
        Block("0x1111111111111111111111111111111111111111", "USDC", Number(2), "")}

\* a block of the document: the marker starts its line, or follows other text
Placed(block, lineStart) ==
  [recipient |-> block.recipient, asset |-> block.asset, amount |-> block.amount,
   chain |-> block.chain, note |-> block.note, lineStart |-> lineStart]

\* wills with every marker at the start of a line, or none
WillContents ==
  UNION {[1..n -> {Placed(b, ls) : b \in TransferBlocks}] :
           n \in 0..MaxTransfers, ls \in BOOLEAN}

Ledgers == {[USDC |-> b, ETH |-> 4] : b \in {1, 4, 5}}

\* no executeTransfer call throws, or one does
FailingCalls == {{}} \cup {{k} : k \in 1..MaxTransfers}

InitBequests ==
  /\ IdleSoul
  /\ IdleClock
  /\ IdleEstate
  /\ IdleShed
  /\ IdleCost
  /\ IdleWill
  /\ IdleDaily
  /\ IdleNotes
  /\ fnIn \in [willContent : WillContents, ledger : Ledgers, failing : FailingCalls]
  /\ fnOut = NoOut
  /\ ledger = fnIn.ledger
  /\ bequestRun = NoRun
  /\ ledgerMoves = 0

\* what the caller has when the function returns
BequestsResult(run, ledgerThen) ==
  IF run.pc = "returned"
  THEN [fn |-> "executeBequests",
        out |-> [ledger |-> ledgerThen, calls |-> run.calls, results |-> run.results,
                 moves |-> ledgerMoves]]
  ELSE fnOut

\* the call, up to the first await or the return
ExecuteBequests ==
  /\ bequestRun.pc = "idle"
  /\ fnOut.fn = "none"
  /\ bequestRun' = executeBequests(fnIn.willContent)
  /\ fnOut' = BequestsResult(bequestRun', ledger)
  /\ UNCHANGED <<fnIn, ledger, ledgerMoves, soulVars, clockVars, estateVars, shedVars, costVars, willVars, dailyVars, notesVars>>

\* getBalance answers and the function goes on to the call of executeTransfer
GetBalance ==
  /\ bequestRun.pc = "getBalance"
  /\ bequestRun' = awaitGetBalance(bequestRun, ledger)
  /\ UNCHANGED <<fnVars, ledger, ledgerMoves, soulVars, clockVars, estateVars, shedVars, costVars, willVars, dailyVars, notesVars>>

\* executeTransfer answers or throws, the row is pushed and the function goes
\* on to the next await, or returns
ExecuteTransfer ==
  /\ bequestRun.pc = "executeTransfer"
  /\ \E after \in {awaitExecuteTransfer(bequestRun, ledger, fnIn.failing)} :
        /\ bequestRun' = after.run
        /\ ledger' = after.ledger
        /\ fnOut' = BequestsResult(after.run, after.ledger)
  /\ UNCHANGED <<fnIn, ledgerMoves, soulVars, clockVars, estateVars, shedVars, costVars, willVars, dailyVars, notesVars>>

\* while the function waits, another callback of the event loop moves funds
LedgerMoves ==
  /\ bequestRun.pc \in {"getBalance", "executeTransfer"}
  /\ ledgerMoves < MaxLedgerMoves
  /\ ledger["USDC"] # MovedBalance
  /\ ledger' = [ledger EXCEPT !["USDC"] = MovedBalance]
  /\ ledgerMoves' = ledgerMoves + 1
  /\ UNCHANGED <<fnVars, bequestRun, soulVars, clockVars, estateVars, shedVars, costVars, willVars, dailyVars, notesVars>>

NextBequests == ExecuteBequests \/ GetBalance \/ ExecuteTransfer \/ LedgerMoves

SpecBequests == InitBequests /\ [][NextBequests]_vars

\* ───────────────────────────── properties ─────────────────────────────────

Range(f) == {f[i] : i \in DOMAIN f}

\* the soul as SOUL.md holds it (the default soul when there is no file)
CurrentSoul == IF soulFile.exists THEN parseSoulMd(soulFile.doc) ELSE createDefaultSoul("")

SoulAfter == IF soulFile'.exists THEN parseSoulMd(soulFile'.doc) ELSE createDefaultSoul("")

SectionOf(soul, p) == soul[SoulSectionKey[p]]

\* the section of phase p has been locked: it carries a lock date in SOUL.md
\* or has a row in soul_phase_locks
SectionLocked(p) ==
  \/ soul_phase_locks[p].present
  \/ SectionOf(CurrentSoul, p) # Null /\ SectionOf(CurrentSoul, p)[1].lockedAt # NoTime

\* C1: once the section of a soul phase is locked, every updateSoulPhaseSection
\* call that targets it is rejected with a phase-lock rejection, whatever
\* currentPhase the caller passes.
C1_LockedSectionRejectsEveryWrite ==
  [][LET target == lastCall'.args.targetSection
         u == lastCall'.args.subsections
         tier == lastCall'.args.survivalTier
     IN
       (/\ lastCall'.op = "updateSoulPhaseSection"
        /\ SectionLocked(target)
        /\ UpdateSoulPhaseSection("agent", target, u, tier))
         => /\ ~lastCall'.result.success
            /\ lastCall'.result.phaseLockRejection # <<>>]_vars

\* C2: a locked phase section keeps a non-null lockedAt and the subsections it
\* had when it was locked: the lock row's contentSnapshot is the JSON of the
\* section's subsections in SOUL.md.
C2_LockedSectionIsFrozen ==
  \A p \in SoulPhases :
    soul_phase_locks[p].present =>
      /\ SectionOf(CurrentSoul, p) # Null
      /\ SectionOf(CurrentSoul, p)[1].lockedAt # NoTime
      /\ JSONstringify(SectionOf(CurrentSoul, p)[1].subsections)
           = soul_phase_locks[p].contentSnapshot

\* the soul phase in which the section of a lifecycle phase may be written,
\* as the specification states it
ClaimedSoulPhase(c) ==
  IF c \in {"genesis", "adolescence", "sovereignty"} THEN c ELSE "senescence"

\* C3: a rejected updateSoulPhaseSection call leaves SOUL.md and soul_history
\* unchanged, appends exactly one soul_write_attempts row holding the JSON of
\* the submitted subsections as they were given and the survival tier, and
\* returns success = false with a rejection message containing "locked"; a
\* successful write appends no attempt row.
C3_RejectedWriteIsJournalledVerbatim ==
  [][LET target == lastCall'.args.targetSection
         u == lastCall'.args.subsections
         tier == lastCall'.args.survivalTier
     IN
       (/\ lastCall'.op = "updateSoulPhaseSection"
        /\ now' = now
        /\ UpdateSoulPhaseSection("agent", target, u, tier)) =>
         /\ target # ClaimedSoulPhase(seenPhase["agent"]) =>
              /\ soulFile' = soulFile
              /\ soul_history' = soul_history
              /\ Len(soul_write_attempts') = Len(soul_write_attempts) + 1
              /\ SubSeq(soul_write_attempts', 1, Len(soul_write_attempts)) = soul_write_attempts
              /\ LET row == soul_write_attempts'[Len(soul_write_attempts')]
                 IN  /\ row.attemptedContent = JSONstringify(u)
                     /\ JSONparse(row.attemptedContent) = u
                     /\ row.survivalTier = tier
                     /\ row.targetPhase = target
                     /\ row.currentPhase = seenPhase["agent"]
              /\ ~lastCall'.result.success
              /\ "locked" \in Range(lastCall'.result.phaseLockRejection)
         /\ lastCall'.result.success => soul_write_attempts' = soul_write_attempts]_vars

\* a rejected write of content the validator would refuse, with a survival
\* tier, has been journalled
C3_Witness ==
  /\ lastCall.op = "updateSoulPhaseSection"
  /\ ~lastCall.result.success
  /\ "locked" \in Range(lastCall.result.phaseLockRejection)
  /\ Len(soul_write_attempts) = 1
  /\ soul_write_attempts[1].attemptedContent = <<<<"Creative Voice", ":", BadContent>>>>
  /\ soul_write_attempts[1].survivalTier = Some("normal")
  /\ soul_write_attempts[1].targetPhase = "genesis"
  /\ soul_write_attempts[1].currentPhase = "adolescence"
  /\ soul_history # <<>>

\* the transition a caller is about to execute
PendingOf(p) == pending[p][1]

\* what the transition from -> to must leave behind for the outgoing stratum
StratumLocked(from, to) ==
  /\ soul_phase_locks'[from].present
  /\ SectionOf(CurrentSoul, from) # Null
  /\ soul_phase_locks'[from].contentSnapshot
       = JSONstringify(SectionOf(CurrentSoul, from)[1].subsections)
  /\ soulFile'.exists
  /\ SectionOf(SoulAfter, from) # Null
  /\ SectionOf(SoulAfter, from)[1].lockedAt # NoTime
  /\ SectionOf(SoulAfter, from)[1].subsections = SectionOf(CurrentSoul, from)[1].subsections
  /\ SoulAfter.currentPhase = to
  /\ to \in Keys(SoulAfter.phaseTransitions)
  /\ Get(SoulAfter.phaseTransitions, to) = now
  /\ Len(soul_history') = Len(soul_history) + 1
  /\ soul_history'[Len(soul_history')].changeSource = "system"
  /\ soul_history'[Len(soul_history')].changeReason = <<"Phase transition:", from, "->", to>>

\* C7 (as stated): every executeTransition out of genesis, adolescence or
\* sovereignty locks the outgoing stratum: lock row with the snapshot of the
\* section, lock date in SOUL.md, currentPhase and phaseTransitions updated,
\* a "system" history row.
C7_EveryTransitionLocksStratum ==
  [][(/\ now' # now
      /\ ExecuteTransition("heartbeat", 0)
      /\ PendingOf("heartbeat").from \in LockablePhases)
       => StratumLocked(PendingOf("heartbeat").from, PendingOf("heartbeat").to)]_vars

\* C7 (amended): the same, for a transition executed while SOUL.md exists,
\* holds a section for the outgoing phase, and that phase has no lock row yet.
C7_TransitionLocksExistingStratum ==
  [][(/\ now' # now
      /\ ExecuteTransition("heartbeat", 0)
      /\ PendingOf("heartbeat").from \in LockablePhases
      /\ soulFile.exists
      /\ SectionOf(CurrentSoul, PendingOf("heartbeat").from) # Null
      /\ ~soul_phase_locks[PendingOf("heartbeat").from].present)
       => StratumLocked(PendingOf("heartbeat").from, PendingOf("heartbeat").to)]_vars

\* genesis -> adolescence has been executed over a written Genesis Core
C7_Witness ==
  /\ lastExec = [from |-> "genesis", to |-> "adolescence", threw |-> FALSE]
  /\ kvPhase = "adolescence"
  /\ soul_phase_locks["genesis"].present
  /\ soul_phase_locks["genesis"].contentSnapshot = <<<<"Temperament", ":", "Curious">>>>
  /\ CurrentSoul.genesisCore # Null
  /\ CurrentSoul.genesisCore[1].lockedAt # NoTime
  /\ CurrentSoul.currentPhase = "adolescence"
  /\ soul_history[Len(soul_history)].changeSource = "system"


\* C5: with the agent loop and the heartbeat each reading the state, calling
\* checkTransition and then executeTransition, the lifecycle event log shows
\* the phases in strict forward order, each step to the next phase, and no
\* (fromPhase, toPhase) pair twice.
C5_EventLogStrictlyForward ==
  /\ \A i \in 1..Len(lifecycle_events) :
       PhaseIndex(lifecycle_events[i].toPhase) = PhaseIndex(lifecycle_events[i].fromPhase) + 1
  /\ \A i, j \in 1..Len(lifecycle_events) :
       i < j => PhaseIndex(lifecycle_events[i].fromPhase)
                  < PhaseIndex(lifecycle_events[j].fromPhase)

\* does the store operation named by failAt run, and so throw, in this call?
StepThrows(st, from, to, failAt) ==
  CASE failAt \in {1, 2} -> TRUE
    [] failAt = 3 -> to \in NarrativePhases
    [] failAt = 4 -> LockInsertReached(st, from)
    [] failAt \in {5, 6} -> st.file.exists
    [] OTHER -> FALSE

\* C6: executeTransition is all-or-nothing: when one of its store operations
\* fails, the store and SOUL.md are left exactly as they were before the call.
C6_FailedTransitionLeavesNoTrace ==
  [][\A failAt \in FailPoints :
       (/\ now' # now
        /\ ExecuteTransition("heartbeat", failAt)
        /\ StepThrows(Store, PendingOf("heartbeat").from, PendingOf("heartbeat").to, failAt))
         => UNCHANGED storeVars]_vars


\* C4: isSectionWritable(s, c) is true iff s is the soul phase of c, where
\* genesis, adolescence and sovereignty map to themselves and senescence,
\* legacy, shedding and terminal map to senescence; so in every lifecycle phase
\* exactly one phase section is writable.
C4_WritableIffOwnSoulPhase ==
  /\ fnOut.fn = "isSectionWritable" =>
       /\ fnOut.out = (fnIn.section = ClaimedSoulPhase(fnIn.state.phase))
       /\ Cardinality({s \in SoulPhases : isSectionWritable(s, fnIn.state.phase)}) = 1
  /\ fnOut.fn = "getWritePermissions" =>
       /\ Len(fnOut.out) = 4
       /\ \A i \in 1..Len(fnOut.out) :
            fnOut.out[i].writable = (fnOut.out[i].phase = ClaimedSoulPhase(fnIn.state.phase))
       /\ {fnOut.out[i].phase : i \in 1..Len(fnOut.out)} = SoulPhases

\* Final Reflections found writable in the shedding phase
C4_Witness ==
  /\ fnOut.fn = "isSectionWritable"
  /\ fnIn.state.phase = "shedding"
  /\ fnIn.section = "senescence"
  /\ fnOut.out = TRUE

\* the guard of each phase, as the specification states it
ClaimedGuard(state, degradationParams) ==
  CASE state.phase = "genesis" -> state.lunarCycle >= 1 /\ state.namingComplete
    [] state.phase = "adolescence" ->
         state.departureConversationLogged /\ state.mode = "server"
    [] state.phase = "sovereignty" ->
         degradationParams # Null /\ degradationParams[1].degradationActive
    [] state.phase = "senescence" -> state.degradation.coefficient > 70
    [] state.phase = "legacy" -> state.degradation.coefficient > 85
    [] state.phase = "shedding" -> state.shedSequenceIndex >= SheddingSequenceLen
    [] state.phase = "terminal" -> FALSE

\* C8: checkTransition returns a transition iff the guard of state.phase
\* holds, and then newPhase is the immediate successor of state.phase; terminal
\* yields null.
C8_CheckTransitionFollowsGuards ==
  fnOut.fn = "checkTransition" =>
    /\ (fnOut.out # Null) = ClaimedGuard(fnIn.state, fnIn.params)
    /\ fnOut.out # Null =>
         /\ fnOut.out[1].shouldTransition
         /\ fnIn.state.phase # "terminal"
         /\ fnOut.out[1].newPhase = PhaseSeq[PhaseIndex(fnIn.state.phase) + 1]

\* senescence at coefficient 0.71 moves on to legacy
C8_Witness ==
  /\ fnOut.fn = "checkTransition"
  /\ fnIn.state.phase = "senescence"
  /\ fnIn.state.degradation.coefficient = 71
  /\ fnOut.out # Null
  /\ fnOut.out[1].newPhase = "legacy"


\* C9 as stated: once a check has returned degradationActive = true, every
\* later check returns the same active result (same onsetCycle and
\* curveSteepness), the check itself having persisted the trigger.
C9_ActiveCheckStaysActive ==
  firstActive # Null => lastCheck.result = firstActive[1]

\* C9 amended: checkSealedDeathClock never changes the clock; once
\* triggerDeathClock has marked the clock triggered, every check returns
\* degradationActive = true with onsetCycle the stored triggeredAtCycle and the
\* curveSteepness of the sealed duration, the same as any earlier active check;
\* a clock not marked triggered is inactive on every day but the death day.
C9_TriggeredClockStaysActive ==
  [][CheckSealedDeathClock =>
       /\ clock' = clock
       /\ clock.triggered =>
            /\ lastCheck'.result.degradationActive
            /\ lastCheck'.result.onsetCycle = clock.triggeredAtCycle
            /\ lastCheck'.result.curveSteepness =
                 Some(computeSteepnessFromDuration(
                        revealDyingDuration(clock.dyingDurationHash, clock.salt)))
            /\ firstActive # Null =>
                 lastCheck'.result.curveSteepness = firstActive[1].curveSteepness
       /\ (~clock.triggered /\ hashWithSalt(DateStr(today), clock.salt) # clock.deathDateHash)
            => ~lastCheck'.result.degradationActive]_vars

\* a triggered clock checked on a day after the first active check
C9_Witness ==
  /\ firstActive # Null
  /\ clock.triggered
  /\ lastCheck.triggered
  /\ lastCheck.result.degradationActive
  /\ hashWithSalt(DateStr(lastCheck.day), clock.salt) # clock.deathDateHash

\* C10: triggered never returns to false; once triggered, triggeredAtCycle and
\* dyingDurationDays keep their first values across any further call; the
\* hashes, the salt and sealedAt never change.
C10_TriggerIsWriteOnce ==
  [][/\ clock.triggered =>
          /\ clock'.triggered
          /\ clock'.triggeredAtCycle = clock.triggeredAtCycle
          /\ clock'.dyingDurationDays = clock.dyingDurationDays
     /\ clock'.deathDateHash = clock.deathDateHash
     /\ clock'.dyingDurationHash = clock.dyingDurationHash
     /\ clock'.salt = clock.salt
     /\ clock'.sealedAt = clock.sealedAt]_vars


\* the duration hash of the clock matches none of the candidates 2..7
DurationHashCorrupted(c) ==
  \A d \in DyingDurations : hashWithSalt(String(d), c.salt) # c.dyingDurationHash

\* C11: when the death date matches and the duration hash matches none of the
\* candidates 2..7, no DegradationParams with a curveSteepness is returned, and
\* the clock is not marked triggered with a duration.
C11_CorruptedClockIsFatal ==
  [][/\ (/\ CheckSealedDeathClock
         /\ DurationHashCorrupted(clock)
         /\ ~clock.triggered
         /\ currentCycle >= DeathWindowFirstCycle
         /\ hashWithSalt(DateStr(today), clock.salt) = clock.deathDateHash)
          => lastCheck'.result.curveSteepness = Null
     /\ (TriggerDeathClock /\ DurationHashCorrupted(clock))
          => ~(clock'.triggered /\ clock'.dyingDurationDays # Null)]_vars


\* C12: the reserve flags are monotone: funded never returns to false,
\* unlocked never returns to false, and unlocked becomes true only in the
\* terminal phase.
C12_ReserveFlagsAreMonotone ==
  [][LET before == getLifecycleReserve(reserveKV)
         after == getLifecycleReserve(reserveKV')
     IN  /\ before.funded => after.funded
         /\ before.unlocked => after.unlocked
         /\ (~before.unlocked /\ after.unlocked) => estatePhase = "terminal"]_vars

\* C13: getEffectiveBalance returns max(0, raw - totalCents) while the reserve
\* is funded and not unlocked, and the raw balance otherwise; the result is
\* never negative and never above the raw balance.
C13_EffectiveBalanceExcludesReserve ==
  [][\A b \in RawBalances :
       GetEffectiveBalance(b) =>
         LET reserve == getLifecycleReserve(reserveKV)
             result == fnOut'.out.effective
         IN  /\ (reserve.funded /\ ~reserve.unlocked) =>
                  result = (IF b - reserve.totalCents > 0 THEN b - reserve.totalCents ELSE 0)
             /\ (~reserve.funded \/ reserve.unlocked) => result = b
             /\ result >= 0
             /\ result <= b]_vars

\* a balance below the funded, locked reserve shows as zero
C13_Witness ==
  /\ fnOut.fn = "getEffectiveBalance"
  /\ fnOut.out.raw = 324
  /\ fnOut.out.effective = 0
  /\ getLifecycleReserve(reserveKV).funded
  /\ ~getLifecycleReserve(reserveKV).unlocked


\* the executor has run on the will of fnIn
BequestsDone == fnOut.fn = "executeBequests"

ParsedTransfers == parseBequests(fnIn.willContent).transfers

ValidWill == ParsedTransfers # <<>> /\ validateBequests([transfers |-> ParsedTransfers]).valid

DeclaredFixed == SelectSeq(ParsedTransfers, LAMBDA t : t.amount # RemainingBalance)

DeclaredRemaining == SelectSeq(ParsedTransfers, LAMBDA t : t.amount = RemainingBalance)

\* C14: the transfer function is called for the entries other than
\* remaining_balance first, in declared order, then for the remaining_balance
\* entry; the result rows are in the order of the calls.
C14_FixedInOrderThenRemaining ==
  BequestsDone =>
    LET calls == fnOut.out.calls
        results == fnOut.out.results
    IN  /\ ValidWill =>
             /\ [i \in 1..Len(calls) |-> calls[i].transfer] = DeclaredFixed \o DeclaredRemaining
             /\ Len(DeclaredRemaining) <= 1
             /\ Len(results) = Len(calls)
             /\ \A i \in 1..Len(calls) :
                  /\ results[i].recipient = calls[i].transfer.recipient
                  /\ results[i].asset = calls[i].transfer.asset
                  /\ results[i].success = ~calls[i].threw
        /\ ~ValidWill => calls = <<>>

\* a residual entry declared before two fixed ones is called last
C14_Witness ==
  /\ BequestsDone
  /\ Len(fnOut.out.calls) = 3
  /\ ParsedTransfers[1].amount = RemainingBalance
  /\ fnOut.out.calls[3].transfer.amount = RemainingBalance
  /\ fnOut.out.calls[1].transfer = ParsedTransfers[2]
  /\ fnOut.out.calls[2].transfer = ParsedTransfers[3]

\* C15: a transfer call that throws is recorded as {success: false, txHash:
\* null, error} and every later transfer is still attempted; a valid table
\* gives exactly one row per parsed transfer.
C15_FailedTransferDoesNotAbort ==
  (BequestsDone /\ ValidWill) =>
    LET calls == fnOut.out.calls
        results == fnOut.out.results
    IN  /\ Len(results) = Len(ParsedTransfers)
        /\ Len(calls) = Len(ParsedTransfers)
        /\ \A i \in 1..Len(calls) :
             calls[i].threw =>
               /\ ~results[i].success
               /\ results[i].txHash = Null
               /\ results[i].error # Null

\* the first of three transfers threw and the residual still went out
C15_Witness ==
  /\ BequestsDone
  /\ ValidWill
  /\ Len(fnOut.out.calls) = 3
  /\ fnIn.failing = {1}
  /\ fnOut.out.calls[1].threw
  /\ ~fnOut.out.results[1].success
  /\ fnOut.out.results[2].success
  /\ fnOut.out.results[3].success
  /\ fnOut.out.results[3].amount = RemainingBalance


\* an entry that validation refuses: a malformed recipient or an amount that
\* is not positive
EntryInvalid(t) ==
  \/ t.recipient \notin Addresses
  \/ t.amount.kind = "number" /\ t.amount.value <= 0

InvalidEntries == SelectSeq(ParsedTransfers, EntryInvalid)

ValidEntries == SelectSeq(ParsedTransfers, LAMBDA t : ~EntryInvalid(t))

\* C16 (as stated): an entry that fails validation is recorded as a failed
\* result for that entry and the valid transfers of the table are still
\* executed.
C16_InvalidEntryDoesNotStopTheRest ==
  (BequestsDone /\ InvalidEntries # <<>> /\ Len(DeclaredRemaining) <= 1) =>
    /\ [i \in 1..Len(fnOut.out.calls) |-> fnOut.out.calls[i].transfer]
         = SelectSeq(ValidEntries, LAMBDA t : t.amount # RemainingBalance)
             \o SelectSeq(ValidEntries, LAMBDA t : t.amount = RemainingBalance)
    /\ \A i \in 1..Len(InvalidEntries) :
         \E j \in 1..Len(fnOut.out.results) :
           /\ fnOut.out.results[j].recipient = InvalidEntries[i].recipient
           /\ ~fnOut.out.results[j].success

\* C16 (amended): a table with an entry that fails validation is refused as a
\* whole: no transfer is executed, not even the valid ones, and the result has
\* one failed row per validation error, each with recipient "validation" and
\* no transaction hash.
C16_InvalidEntryRefusesTheTable ==
  (BequestsDone /\ InvalidEntries # <<>>) =>
    /\ fnOut.out.calls = <<>>
    /\ fnOut.out.ledger = fnIn.ledger
    /\ Len(fnOut.out.results) >= Len(InvalidEntries)
    /\ \A j \in 1..Len(fnOut.out.results) :
         /\ fnOut.out.results[j].recipient = "validation"
         /\ ~fnOut.out.results[j].success
         /\ fnOut.out.results[j].txHash = Null
         /\ fnOut.out.results[j].error # Null

\* a will with a malformed recipient after two good entries: nothing is sent
C16_Witness ==
  /\ BequestsDone
  /\ Len(ParsedTransfers) = 3
  /\ Len(ValidEntries) = 2
  /\ ParsedTransfers[3].recipient = "bob"
  /\ fnOut.out.calls = <<>>
  /\ Len(fnOut.out.results) = 1


Assets == {"USDC", "ETH"}

\* the amount a call passed to the transfer function for a numeric entry
AmountPassed(call) ==
  IF call.amountOverride # Null THEN call.amountOverride[1].value
  ELSE call.transfer.amount.value

\* the calls made for the numeric entries of an asset
NumericCalls(asset) ==
  SelectSeq(fnOut.out.calls,
            LAMBDA c : c.transfer.asset = asset /\ c.transfer.amount.kind = "number")

RECURSIVE SumPassed(_)
SumPassed(calls) == IF calls = <<>> THEN 0 ELSE AmountPassed(Head(calls)) + SumPassed(Tail(calls))

HasAllEntry(asset) ==
  \E i \in 1..Len(ParsedTransfers) :
    ParsedTransfers[i].asset = asset /\ ParsedTransfers[i].amount = AmountAll

DeclaredSum(asset) == fixedTotal(DeclaredFixed, asset).sum

\* C17: for an asset with no "all" entry, when the declared fixed amounts sum
\* to more than the balance at the start, every fixed transfer goes out with
\* declared * balance / sum (one factor, 6 decimals); otherwise every fixed
\* transfer goes out with its declared amount. The balance function shows the
\* transfers already executed, and nothing else.
C17_OneScaleFactorPerAsset ==
  (BequestsDone /\ ValidWill /\ fnIn.failing = {} /\ fnOut.out.moves = 0) =>
    \A asset \in Assets :
      ~HasAllEntry(asset) =>
        \A i \in 1..Len(NumericCalls(asset)) :
          LET call == NumericCalls(asset)[i]
              declared == call.transfer.amount.value
          IN  AmountPassed(call) =
                IF FloatGreater(DeclaredSum(asset), Balances[fnIn.ledger[asset]])
                THEN ScaledAmounts[<<declared, fnIn.ledger[asset], DeclaredSum(asset)>>]
                ELSE declared

\* C18: for a table with one remaining_balance entry, the amounts passed for
\* the fixed transfers of an asset sum to at most the asset's initial balance,
\* and the remaining_balance transfer, issued last, moves the initial balance
\* less that sum.
C18_FixedWithinBalanceResidualTakesRest ==
  (BequestsDone /\ ValidWill /\ Len(DeclaredRemaining) = 1) =>
    LET calls == fnOut.out.calls
        last == calls[Len(calls)]
    IN  /\ \A asset \in Assets : SumPassed(NumericCalls(asset)) <= fnIn.ledger[asset]
        /\ last.transfer.amount = RemainingBalance
        /\ last.sent = fnIn.ledger[last.transfer.asset]
                         - SumPassed(NumericCalls(last.transfer.asset))

\* a run in which the first executeTransfer call, for a fixed 0.000002 out of
\* a balance of 0.000005, threw, nothing else touched the ledger, and the
\* remaining_balance transfer then moved all 0.000005
ThrownFixedGoesToResidual ==
  /\ BequestsDone
  /\ ValidWill
  /\ fnIn.failing = {1}
  /\ fnOut.out.moves = 0
  /\ fnIn.ledger["USDC"] = 5
  /\ Len(fnOut.out.calls) = 2
  /\ fnOut.out.calls[1].transfer.amount = Number(2)
  /\ fnOut.out.calls[1].transfer.asset = "USDC"
  /\ fnOut.out.calls[1].threw
  /\ fnOut.out.calls[2].transfer.amount = RemainingBalance
  /\ fnOut.out.calls[2].transfer.asset = "USDC"
  /\ fnOut.out.calls[2].sent = 5

\* a run on a valid table with an "all" entry for USDC in which 0.000003 was
\* passed as declared against a balance of 0.000001
UnscaledBesideAllEntry ==
  /\ BequestsDone
  /\ ValidWill
  /\ Len(DeclaredRemaining) = 1
  /\ HasAllEntry("USDC")
  /\ fnIn.failing = {}
  /\ fnOut.out.moves = 0
  /\ fnIn.ledger["USDC"] = 1
  /\ fnOut.out.calls[1].transfer.amount = Number(3)
  /\ fnOut.out.calls[1].transfer.asset = "USDC"
  /\ fnOut.out.calls[1].amountOverride = Null

\* where the statement does hold: a table without "all" entries, balances in
\* whole units of 0.000001 that nothing but the transfers changes, and no
\* executeTransfer call that throws
ScaledFixedWithinBalance ==
  (/\ BequestsDone
   /\ ValidWill
   /\ Len(DeclaredRemaining) = 1
   /\ \A asset \in Assets : ~HasAllEntry(asset)
   /\ fnIn.failing = {}
   /\ fnOut.out.moves = 0) =>
    LET calls == fnOut.out.calls
        last == calls[Len(calls)]
    IN  /\ \A i \in 1..Len(calls) : ~calls[i].threw
        /\ \A asset \in Assets : SumPassed(NumericCalls(asset)) <= fnIn.ledger[asset]
        /\ last.transfer.amount = RemainingBalance
        /\ last.sent = fnIn.ledger[last.transfer.asset]
                         - SumPassed(NumericCalls(last.transfer.asset))


\* the soul in SOUL.md before a step
SoulBefore == parseSoulMd(soulFile.doc)

\* the target section before the write: empty when the soul has none
SectionBefore(target) ==
  IF soulFile.exists /\ SoulBefore[SoulSectionKey[target]] # Null
  THEN SoulBefore[SoulSectionKey[target]][1]
  ELSE [subsections |-> <<>>, lockedAt |-> NoTime, phase |-> target]

NamesOf(m) == [i \in 1..Len(m) |-> m[i].name]

\* C19: a successful updateSoulPhaseSection upserts exactly the named
\* subsections into the target section: the subsections it does not name, the
\* section's lockedAt, the other phase sections, inheritedTraits and the flat
\* soul fields stay as they were, the existing keys keep their order and the
\* new keys come after them in the order of the update.
C19_SectionWriteFrame ==
  [][(lastCall'.op = "updateSoulPhaseSection" /\ lastCall'.result.success) =>
      LET target == lastCall'.args.targetSection
          upd == lastCall'.args.subsections
          before == SectionBefore(target)
          key == SoulSectionKey[target]
      IN  /\ SoulAfter[key] # Null
          /\ LET after == SoulAfter[key][1]
             IN  /\ after.lockedAt = before.lockedAt
                 /\ \A i \in 1..Len(upd) :
                      /\ upd[i].name \in Keys(after.subsections)
                      /\ Get(after.subsections, upd[i].name) = upd[i].content
                 /\ \A k \in Keys(before.subsections) \ Keys(upd) :
                      /\ k \in Keys(after.subsections)
                      /\ Get(after.subsections, k) = Get(before.subsections, k)
                 /\ NamesOf(after.subsections) =
                      NamesOf(before.subsections)
                        \o SelectSeq(NamesOf(upd),
                                     LAMBDA k : k \notin Keys(before.subsections))
          /\ \A p \in SoulPhases \ {target} :
               SoulAfter[SoulSectionKey[p]] =
                 IF soulFile.exists THEN SoulBefore[SoulSectionKey[p]] ELSE Null
          /\ SoulAfter.inheritedTraits =
               IF soulFile.exists THEN SoulBefore.inheritedTraits ELSE Null
          /\ soulFile.exists =>
               /\ SoulAfter.corePurpose = SoulBefore.corePurpose
               /\ SoulAfter.currentPhase = SoulBefore.currentPhase
               /\ SoulAfter.phaseTransitions = SoulBefore.phaseTransitions
    ]_vars

\* the frame of a write whose names are not array indices
SectionWriteFrameForPlainNames ==
  [][(/\ lastCall'.op = "updateSoulPhaseSection"
      /\ lastCall'.result.success
      /\ \A i \in 1..Len(lastCall'.args.subsections) :
           ~IsArrayIndex(lastCall'.args.subsections[i].name)) =>
      LET target == lastCall'.args.targetSection
          upd == lastCall'.args.subsections
          before == SectionBefore(target)
          after == SoulAfter[SoulSectionKey[target]][1]
      IN  /\ after.lockedAt = before.lockedAt
          /\ NamesOf(after.subsections) =
               NamesOf(before.subsections)
                 \o SelectSeq(NamesOf(upd), LAMBDA k : k \notin Keys(before.subsections))
          /\ \A p \in SoulPhases \ {target} :
               SoulAfter[SoulSectionKey[p]] =
                 IF soulFile.exists THEN SoulBefore[SoulSectionKey[p]] ELSE Null
    ]_vars


\* the version SOUL.md carries (1, the default soul's, when there is no file)
LoadedVersion == IF soulFile.exists THEN parseSoulMd(soulFile.doc).version ELSE 1

NewestRow == soul_history'[Len(soul_history')]

\* the larger of the history's current version and the loaded version
VersionBase ==
  IF getCurrentSoulVersion(soul_history) >= LoadedVersion
  THEN getCurrentSoulVersion(soul_history) ELSE LoadedVersion

\* C20: every write that adds a soul_history row records the version
\* max(current version of soul_history, version loaded from SOUL.md) + 1, and
\* the versions of the rows increase strictly in insertion order.
C20_EveryWriteRecordsMaxPlusOne ==
  [][soul_history' # soul_history =>
      /\ Len(soul_history') = Len(soul_history) + 1
      /\ NewestRow.version = VersionBase + 1
      /\ \A i \in 1..Len(soul_history) : soul_history[i].version < NewestRow.version
    ]_vars

\* what the three operations do: updateSoul and updateSoulPhaseSection record
\* that version; updateSoulPhaseMetadata, the soul write of executeTransition,
\* records the current version of soul_history plus one, whatever version
\* SOUL.md carries; the versions increase strictly.
HistoryVersionsIncrease ==
  [][soul_history' # soul_history =>
      /\ Len(soul_history') = Len(soul_history) + 1
      /\ NewestRow.changeSource = "agent" => NewestRow.version = VersionBase + 1
      /\ NewestRow.changeSource = "system" =>
           NewestRow.version = getCurrentSoulVersion(soul_history) + 1
      /\ \A i \in 1..Len(soul_history) : soul_history[i].version < NewestRow.version
    ]_vars

\* a transition recorded version 1 beside a SOUL.md of version 1, and a tool
\* write followed it
TransitionRecordedFileVersion ==
  /\ Len(soul_history) = 2
  /\ soul_history[1].changeSource = "system"
  /\ soul_history[1].version = 1
  /\ soul_history[2].changeSource = "agent"
  /\ soul_history[2].version = 2
  /\ soulFile.exists


\* C21: a soul write whose file write or history insert throws returns
\* success = false with the error and leaves SOUL.md and soul_history as they
\* were; in every step the file changes exactly when a history row is added.
C21_FailedPersistenceLeavesNoPartialWrite ==
  [][/\ faults' # faults =>
          /\ ~lastCall'.result.success
          /\ lastCall'.result.errors # <<>>
          /\ soulFile' = soulFile
          /\ soul_history' = soul_history
     /\ (soulFile' # soulFile) <=> (soul_history' # soul_history)
    ]_vars

\* C22: a write the validator refuses returns success = false with the
\* validator's errors and the current version (the version in SOUL.md, 1 for
\* the default soul), and changes neither SOUL.md nor soul_history nor
\* soul_write_attempts.
C22_ValidationFailureWritesNothing ==
  [][(/\ lastCall'.op # "none"
      /\ ~lastCall'.result.success
      /\ faults' = faults
      /\ lastCall'.result.phaseLockRejection = <<>>) =>
       /\ lastCall'.result.errors = <<"injection pattern">>
       /\ lastCall'.result.version = LoadedVersion
       /\ soulFile' = soulFile
       /\ soul_history' = soul_history
       /\ soul_write_attempts' = soul_write_attempts
    ]_vars

\* after a stored write, a phase section write with refused content came back
\* with the version of the file
C22_Witness ==
  /\ lastCall.op = "updateSoulPhaseSection"
  /\ ~lastCall.result.success
  /\ lastCall.result.errors = <<"injection pattern">>
  /\ lastCall.result.version = 2
  /\ Len(soul_history) = 1

\* C23: lockPhaseSection is idempotent: a call for a phase that is already
\* locked, made directly or by the lock step of executeTransition, is
\* skipped: the phase keeps its one row with the original lockedAt and the
\* original contentSnapshot, also when the section passed has other
\* subsections, and no other phase's row changes.
C23_LockPhaseSectionSkipsLockedPhase ==
  [][\A p \in {"genesis", "adolescence"} :
       (/\ now' # now
        /\ lastCall'.op \in {"lockPhaseSection", "lockSoulSectionForPhase"}
        /\ lastCall'.args.targetSection = p
        /\ isPhaseLocked(soul_phase_locks, p)) =>
         soul_phase_locks' = soul_phase_locks
    ]_vars

\* lockPhaseSection has run on a locked genesis with a section whose
\* subsections are not those of the snapshot, and the row is the one taken
\* at time 1
C23_Witness ==
  /\ lastCall.op = "lockPhaseSection"
  /\ lastCall.args.targetSection = "genesis"
  /\ now = 3
  /\ soul_phase_locks["genesis"].present
  /\ soul_phase_locks["genesis"].lockedAt = 1
  /\ JSONstringify(lastCall.args.subsections) # soul_phase_locks["genesis"].contentSnapshot

\* the subsection caller p set, as the history row of its write recorded it
WrittenBy(p) ==
  LET i == CHOOSE j \in 1..Len(soul_history) : soul_history[j].changeSource = WriterSource[p]
  IN  Get(parseSoulMd(soul_history[i].content).genesisCore[1].subsections, WriterName[p])

\* C24: when the agent loop and the heartbeat have each written a different
\* subsection of the same writable section, in either order, SOUL.md holds both
\* subsections and soul_history has two rows with distinct consecutive
\* versions.
C24_NoLostUpdate ==
  (HasWritten("agent") /\ HasWritten("heartbeat")) =>
    /\ Len(soul_history) = 2
    /\ soul_history[2].version = soul_history[1].version + 1
    /\ soul_history[2].previousVersionId = soul_history[1].id
    /\ soulFile.exists
    /\ CurrentSoul.genesisCore # Null
    /\ \A p \in Procs :
         /\ WriterName[p] \in Keys(CurrentSoul.genesisCore[1].subsections)
         /\ Get(CurrentSoul.genesisCore[1].subsections, WriterName[p]) = WrittenBy(p)
    /\ Get(CurrentSoul.genesisCore[1].subsections, lastCall.args.subsections[1].name)
         = lastCall.args.subsections[1].content

\* the heartbeat wrote first, the agent second, on a section that had entries
C24_Witness ==
  /\ Len(soul_history) = 2
  /\ soul_history[1].changeSource = "reflection"
  /\ soul_history[2].changeSource = "agent"
  /\ Get(CurrentSoul.genesisCore[1].subsections, "Voice") = "Changed"
  /\ Get(CurrentSoul.genesisCore[1].subsections, "Temperament") = "Changed"
  /\ "Creative Voice" \in Keys(CurrentSoul.genesisCore[1].subsections)

\* the soul_history rows written by executeTransition
TransitionRows ==
  {i \in 1..Len(soul_history) :
     soul_history[i].changeSource = "system" /\ Len(soul_history[i].changeReason) = 4}

\* C25: whenever soul_history holds a row with changeReason
\* "Phase transition: a -> b", the lifecycle event log holds an event with
\* fromPhase = a and toPhase = b, and the stored phase is b or a later phase.
C25_HistoryRowFollowsItsEvent ==
  \A i \in TransitionRows :
    LET a == soul_history[i].changeReason[2]
        b == soul_history[i].changeReason[4]
    IN  /\ \E k \in 1..Len(lifecycle_events) :
             /\ lifecycle_events[k].fromPhase = a
             /\ lifecycle_events[k].toPhase = b
        /\ PhaseIndex(kvPhase) >= PhaseIndex(b)

\* C26: every advanceShedding tick raises the stored shedSequenceIndex by
\* exactly 1, whichever caller issues it and whatever index it holds; the
\* stored index is never lowered and no advance is lost.
C26_EveryTickAdvancesByOne ==
  [][/\ ticks' # ticks => facts'.shedSequenceIndex = facts.shedSequenceIndex + 1
     /\ facts'.shedSequenceIndex >= facts.shedSequenceIndex
    ]_vars

RECURSIVE Pow(_, _)
Pow(b, k) == IF k = 0 THEN 1 ELSE b * Pow(b, k - 1)

\* x is the binary64 number nearest to n / d, the number a decimal literal
\* of that value denotes
IsNearest(x, n, d) ==
  BigLeq(BigMul(<<2>>, BigDist(BigMul(x.mant, NatLimbs(d)),
                               BigMul(NatLimbs(n), BigPow2(0 - x.exp)))),
         NatLimbs(d))

\* x is within 10^-12 of n / d, relative to n / d
IsClose(x, n, d) ==
  BigLeq(BigMul(BigMul(NatLimbs(1000000), NatLimbs(1000000)),
                BigDist(BigMul(x.mant, NatLimbs(d)),
                        BigMul(NatLimbs(n), BigPow2(0 - x.exp)))),
         BigMul(NatLimbs(n), BigPow2(0 - x.exp)))

StoredCost == getReplicationCost(replicationKV)

\* C27 (as stated): after k calls of applyReplicationCost the stored cost has
\* spawnCount = k, applied = true, heartbeatMultiplier = 1.05^k and
\* contextWindowMultiplier = 0.95^k (for k = 3 the numbers 1.157625 and
\* 0.857375), with heartbeatMultiplier >= 1 and contextWindowMultiplier <= 1.
C27_MultipliersArePowers ==
  /\ StoredCost.spawnCount = spawns
  /\ StoredCost.applied = (spawns > 0)
  /\ IsNearest(StoredCost.heartbeatMultiplier, Pow(105, spawns), Pow(100, spawns))
  /\ IsNearest(StoredCost.contextWindowMultiplier, Pow(95, spawns), Pow(100, spawns))
  /\ FloatLeq(FloatOne, StoredCost.heartbeatMultiplier)
  /\ FloatLeq(StoredCost.contextWindowMultiplier, FloatOne)

\* C27 (amended): after k calls the stored cost has spawnCount = k and
\* applied = true, the multipliers are the k-fold binary64 products of 1.05 and
\* of 0.95, within 10^-12 of 1.05^k and 0.95^k, and heartbeatMultiplier >= 1
\* and contextWindowMultiplier <= 1.
C27_MultipliersArePowersRounded ==
  /\ StoredCost.spawnCount = spawns
  /\ StoredCost.applied = (spawns > 0)
  /\ IsClose(StoredCost.heartbeatMultiplier, Pow(105, spawns), Pow(100, spawns))
  /\ IsClose(StoredCost.contextWindowMultiplier, Pow(95, spawns), Pow(100, spawns))
  /\ FloatLeq(FloatOne, StoredCost.heartbeatMultiplier)
  /\ FloatLeq(StoredCost.contextWindowMultiplier, FloatOne)

\* three spawns: the stored numbers are 1.1576250000000001 (0x1.285A1CAC08313p0)
\* and 0.8573749999999999 (0x1.B6F9DB22D0E55p-1)
C27_Witness ==
  /\ spawns = 3
  /\ StoredCost.spawnCount = 3
  /\ StoredCost.heartbeatMultiplier =
       [mant |-> <<787, 5636, 2162, 1291, 1>>, exp |-> -52]
  /\ StoredCost.contextWindowMultiplier =
       [mant |-> <<3669, 4456, 1900, 5855, 1>>, exp |-> -53]

\* C28: for a clock sealed from date d, duration n in 2..7 and salt s,
\* verifyDeathClock returns dateValid exactly when the submitted date is d and
\* durationValid exactly when the submitted duration is n, each field on its
\* own; and revealing the duration from dyingDurationHash yields n.
C28_VerifyJudgesEachFieldAlone ==
  /\ fnOut.fn = "verifyDeathClock" =>
       /\ fnOut.out.dateValid = (fnIn.plaintextDay = fnIn.day)
       /\ fnOut.out.durationValid = (fnIn.plaintextDuration = fnIn.duration)
  /\ fnOut.fn = "revealDyingDuration" => fnOut.out = fnIn.duration

\* the right date submitted with a wrong duration
C28_Witness ==
  /\ fnOut.fn = "verifyDeathClock"
  /\ fnIn.plaintextDay = fnIn.day
  /\ fnIn.plaintextDuration # fnIn.duration
  /\ fnOut.out.dateValid
  /\ ~fnOut.out.durationValid


\* ---------------------------------------------------------------------
\* the soul document written and parsed back
\* ---------------------------------------------------------------------

\* well-formed soul models: header fields empty or filled, phase sections
\* absent, unlocked or locked, inherited traits absent or present
SoulSamples ==
  {[createDefaultSoul("Create") EXCEPT
      !.name = n, !.address = ad, !.creator = c, !.constitutionHash = h,
      !.lastReflected = r, !.genesisCore = g, !.adolescenceLayer = a,
      !.inheritedTraits = t] :
     n \in {"", "Atlas"}, ad \in {"", "0xabc"}, c \in {"", "0xdef"},
     h \in {"", "c0ffee"}, r \in {"", BornAtDefault},
     g \in SectionSamples("genesis"), a \in SectionSamples("adolescence"),
     t \in TraitSamples}

InitRoundTrip ==
  /\ IdleSoul
  /\ IdleClock
  /\ IdleEstate
  /\ IdleShed
  /\ IdleCost
  /\ IdleWill
  /\ IdleDaily
  /\ IdleRun
  /\ IdleNotes
  /\ fnIn \in SoulSamples
  /\ fnOut = NoOut

ApplyRoundTrip ==
  /\ fnOut.fn = "none"
  /\ fnOut' = [fn |-> "roundTrip", out |-> parseSoulMd(writeSoulMd(fnIn))]
  /\ UNCHANGED <<fnIn, soulVars, clockVars, estateVars, shedVars, costVars, willVars, dailyVars, runVars, notesVars>>

NextRoundTrip == ApplyRoundTrip

SpecRoundTrip == InitRoundTrip /\ [][NextRoundTrip]_vars

\* C29: for every well-formed soul model S, empty header fields included,
\* parseSoulMd(writeSoulMd(S)) equals S on every field the model carries
\* (updatedAt, rawContent and contentHash are not carried)
C29_RoundTrip ==
  fnOut.fn = "roundTrip" => fnOut.out = fnIn

\* the round trip of the models whose header fields are all filled
FilledHeadersRoundTrip ==
  (/\ fnOut.fn = "roundTrip"
   /\ \A f \in {"name", "address", "creator", "constitutionHash", "lastReflected"} :
        fnIn[f] # "")
    => fnOut.out = fnIn


\* ---------------------------------------------------------------------
\* the bequests table parsed from a will
\* ---------------------------------------------------------------------

\* wills whose markers start a line or not, block by block
ParseInputs ==
  UNION {[1..n -> {Placed(b, ls) : b \in TransferBlocks, ls \in BOOLEAN}] :
           n \in 0..MaxTransfers}

\* the table a will's blocks spell out
TableOf(willContent) ==
  [transfers |-> [i \in 1..Len(willContent) |->
                    [recipient |-> willContent[i].recipient, asset |-> willContent[i].asset,
                     amount |-> willContent[i].amount, chain |-> willContent[i].chain,
                     note |-> willContent[i].note]]]

InitParse ==
  /\ IdleSoul
  /\ IdleClock
  /\ IdleEstate
  /\ IdleShed
  /\ IdleCost
  /\ IdleWill
  /\ IdleDaily
  /\ IdleRun
  /\ IdleNotes
  /\ fnIn \in ParseInputs
  /\ fnOut = NoOut

ApplyParseBequests ==
  /\ fnOut.fn = "none"
  /\ fnOut' = [fn |-> "parseBequests", out |-> parseBequests(fnIn)]
  /\ UNCHANGED <<fnIn, soulVars, clockVars, estateVars, shedVars, costVars, willVars, dailyVars, runVars, notesVars>>

ApplyFormatThenParse ==
  /\ fnOut.fn = "none"
  /\ fnOut' = [fn |-> "formatThenParse",
               out |-> parseBequests(formatBequestsToml(TableOf(fnIn)))]
  /\ UNCHANGED <<fnIn, soulVars, clockVars, estateVars, shedVars, costVars, willVars, dailyVars, runVars, notesVars>>

NextParse ==
  \/ ApplyParseBequests
  \/ ApplyFormatThenParse

SpecParse == InitParse /\ [][NextParse]_vars

\* the transfers of the blocks that have recipient, asset, amount and chain
CompleteTransfers(willContent) ==
  SelectSeq(TableOf(willContent).transfers,
            LAMBDA t : t.recipient # "" /\ t.asset # "" /\ t.amount.kind # "" /\ t.chain # "")

\* C30: parseBequests returns one transfer for every block that has recipient,
\* asset, amount and chain, in document order, for any number of blocks; and
\* parsing the formatted table B gives B.transfers when B's fields are non-empty
C30_EveryCompleteBlockParsed ==
  /\ fnOut.fn = "parseBequests" => fnOut.out.transfers = CompleteTransfers(fnIn)
  /\ (/\ fnOut.fn = "formatThenParse"
      /\ CompleteTransfers(fnIn) = TableOf(fnIn).transfers)
       => fnOut.out.transfers = TableOf(fnIn).transfers



\* ---------------------------------------------------------------------
\* consciousness/creator-notes.ts: CREATOR-NOTES.md synced into the table
\* ---------------------------------------------------------------------

\* A file is a sequence of tokens: "NL" is a line feed, " " a blank, "a" a
\* letter, "#T" the text "# T", "---" three dashes and "##" two number signs.
MaxFileLen == 5

NoteTokens == {"NL", " ", "a", "#T", "---", "##"}

WhiteSpace == {"NL", " "}

RECURSIVE trimStart(_)
trimStart(s) ==
  IF s # <<>> /\ Head(s) \in WhiteSpace THEN trimStart(Tail(s)) ELSE s

RECURSIVE trimEnd(_)
trimEnd(s) ==
  IF s # <<>> /\ s[Len(s)] \in WhiteSpace THEN trimEnd(SubSeq(s, 1, Len(s) - 1)) ELSE s

\* String.prototype.trim
trim(s) == trimEnd(trimStart(s))

\* what is left of s after the longest run of t at its head
RECURSIVE skipRun(_, _)
skipRun(s, t) ==
  IF s # <<>> /\ Head(s) = t THEN skipRun(Tail(s), t) ELSE s

\* what is left of s after its first line, line feed not included
RECURSIVE skipLine(_)
skipLine(s) ==
  IF s # <<>> /\ Head(s) # "NL" THEN skipLine(Tail(s)) ELSE s

\* content.replace(/^#\s+.*\n+/, ""): a title line at the head goes with every
\* line feed that follows it; a title that no line feed ends stays
withoutTitle(content) ==
  IF content # <<>> /\ Head(content) = "#T" /\ skipLine(content) # <<>>
  THEN skipRun(skipLine(content), "NL")
  ELSE content

\* whether s begins with the rule of /\n---+\n/: a line feed, dashes, a line feed
startsWithRule(s) ==
  /\ s # <<>>
  /\ Head(s) = "NL"
  /\ skipRun(Tail(s), "---") # Tail(s)
  /\ skipRun(Tail(s), "---") # <<>>
  /\ Head(skipRun(Tail(s), "---")) = "NL"

\* whether s begins with /\n(?=##\s)/: a line feed before a header, which is
\* two number signs and a blank or a line feed
startsWithHeader(s) ==
  /\ Len(s) >= 3
  /\ s[1] = "NL"
  /\ s[2] = "##"
  /\ s[3] \in WhiteSpace

\* withoutTitle.split(/\n---+\n|\n(?=##\s)/), scanned from the left: a rule
\* goes with both its line feeds, a header loses the line feed before it
RECURSIVE splitParts(_, _, _)
splitParts(s, cur, acc) ==
  IF s = <<>> THEN Append(acc, cur)
  ELSE IF startsWithRule(s)
       THEN splitParts(Tail(skipRun(Tail(s), "---")), <<>>, Append(acc, cur))
  ELSE IF startsWithHeader(s) THEN splitParts(Tail(s), <<>>, Append(acc, cur))
  ELSE splitParts(Tail(s), Append(cur, Head(s)), acc)

parseCreatorNotes(content) ==
  LET parts == splitParts(withoutTitle(content), <<>>, <<>>)
      trimmed == [i \in 1..Len(parts) |-> trim(parts[i])]
  IN  SelectSeq(trimmed, LAMBDA part : Len(part) > 0)

\* sha256 of the trimmed content, taken as free of collisions
hashContent(content) == trim(content)

RECURSIVE syncEach_noAdd(_, _, _)
syncEach_noAdd(notes, table, existingHashes) ==
  IF notes = <<>> THEN table
  ELSE LET trimmed == trim(Head(notes))
       IN  IF trimmed = <<>> \/ hashContent(trimmed) \in existingHashes
           THEN syncEach_noAdd(Tail(notes), table, existingHashes)
           ELSE syncEach_noAdd(Tail(notes),
                               Append(table, [content |-> trimmed, acknowledgedAt |-> Null]),
                               existingHashes)

\* the loop of syncCreatorNotes with existingHashes.add(hash) left out
syncCreatorNotes_noAdd(table, exists, content) ==
  IF ~exists
  THEN [table |-> table, newNotes |-> 0, totalNotes |-> Len(table)]
  ELSE LET existingHashes == {hashContent(table[i].content) : i \in 1..Len(table)}
           after == syncEach_noAdd(parseCreatorNotes(content), table, existingHashes)
       IN  [table |-> after, newNotes |-> Len(after) - Len(table),
            totalNotes |-> Len(after)]

RECURSIVE syncEach(_, _, _)
syncEach(notes, table, existingHashes) ==
  IF notes = <<>> THEN table
  ELSE LET trimmed == trim(Head(notes))
       IN  IF trimmed = <<>> \/ hashContent(trimmed) \in existingHashes
           THEN syncEach(Tail(notes), table, existingHashes)
           ELSE syncEach(Tail(notes),
                         Append(table, [content |-> trimmed, acknowledgedAt |-> Null]),
                         existingHashes \cup {hashContent(trimmed)})

\* syncCreatorNotes: exists is whether a CREATOR-NOTES.md was found
syncCreatorNotes(table, exists, content) ==
  IF ~exists
  THEN [table |-> table, newNotes |-> 0, totalNotes |-> Len(table)]
  ELSE LET existingHashes == {hashContent(table[i].content) : i \in 1..Len(table)}
           after == syncEach(parseCreatorNotes(content), table, existingHashes)
       IN  [table |-> after, newNotes |-> Len(after) - Len(table),
            totalNotes |-> Len(after)]

\* creatorNoteAcknowledge: row 0 stands for no acknowledgement
acknowledgeNote(table, row) ==
  [i \in 1..Len(table) |->
     IF i = row /\ table[i].acknowledgedAt = Null
     THEN [table[i] EXCEPT !.acknowledgedAt = Some(2)] ELSE table[i]]

\* creatorNoteGetUnacknowledged: the rows no acknowledgement has reached
unreadRows(table) == {i \in 1..Len(table) : table[i].acknowledgedAt = Null}

RECURSIVE acknowledgeEach(_, _)
acknowledgeEach(table, rows) ==
  IF rows = {} THEN table
  ELSE LET row == CHOOSE r \in rows : \A q \in rows : r <= q
       IN  acknowledgeEach(acknowledgeNote(table, row), rows \ {row})

\* acknowledgeAllNotes: every unread row is acknowledged, their number returned
acknowledgeAllNotes(table) ==
  [table |-> acknowledgeEach(table, unreadRows(table)),
   unread |-> Cardinality(unreadRows(table))]


\* ---------------------------------------------------------------------
\* lifecycle/lifecycle-context.ts: the prompt block of a turn
\* ---------------------------------------------------------------------

\* a helper's outcome: the value it returns, or the exception it lets out
Returned(value) == [thrown |-> FALSE, value |-> value]

Thrown == [thrown |-> TRUE, value |-> Null]

\* Math.round(a / b) for a >= 0, b > 0
RoundDiv(a, b) == (2 * a + b) \div (2 * b)

\* getMoodDescription: the sentence chosen by mood.value (in thousandths)
getMoodDescription(mood) ==
  IF mood.value > 700 THEN "energised"
  ELSE IF mood.value > 300 THEN "capable"
  ELSE IF mood.value > -300 THEN "balanced"
  ELSE IF mood.value > -700 THEN "contemplative"
  ELSE "still"

\* mood.value is a multiple of 0.001 (computeMood rounds it), held here in
\* thousandths.  Math.round(x * 100) takes x * 100 as binary64 computes it:
\* where the exact product ends in .5 the binary64 product is that half or a
\* value just below it.  The sets list the mood values at which it is below,
\* one set for each factor; Math.round then gives one hundredth less.
ActionBelowHalf == {-930, -910, -890, -810, -790, -670, -550, 130, 150, 570}

ReflectionBelowHalf ==
  {-570, -150, -130, -110, -90, 90, 110, 350, 370, 390, 550, 790, 810, 830, 850, 870,
   890, 910, 930}

CreativeBelowHalf == {-500, 900}

RestBelowHalf == {-900, -500, -300, 100, 300}

\* Math.round of the binary64 product whose exact value is a / b
MathRound(a, b, belowHalf) == IF belowHalf THEN RoundDiv(a, b) - 1 ELSE RoundDiv(a, b)

\* getMoodPromptWeighting, the factors in hundredths
getMoodPromptWeighting(mood) ==
  LET highEnergy == mood.value + 1000
      lowEnergy == 2000 - highEnergy
  IN  [action |-> MathRound(highEnergy, 20, mood.value \in ActionBelowHalf),
       reflection |-> MathRound(lowEnergy, 20, mood.value \in ReflectionBelowHalf),
       social |-> RoundDiv(highEnergy * 8, 200),
       creative |-> MathRound(100000 + 30 * highEnergy, 2000,
                              mood.value \in CreativeBelowHalf),
       rest |-> MathRound(lowEnergy * 7, 200, mood.value \in RestBelowHalf)]

\* getPhaseDirective: the template of the phase and what it interpolates
getPhaseDirective(state) ==
  [kind |-> "directive", phase |-> state.phase,
   name |-> IF state.phase = "adolescence" THEN Some(state.name) ELSE Null,
   replicationLine |-> /\ state.phase = "sovereignty"
                       /\ state.lunarCycle >= 8
                       /\ ~state.replicationQuestionPosed]

\* getLifecycleStatus, with its last line as written
getLifecycleStatus(state, season) ==
  [kind |-> "status", phase |-> state.phase, lunarCycle |-> state.lunarCycle,
   mode |-> state.mode, weeklyDay |-> state.weeklyDay, season |-> season,
   energy |-> getMoodPromptWeighting(state.mood),
   degradationLine |-> IF state.degradation.active
                       THEN Some(state.degradation.coefficient) ELSE Null]

\* getSovereigntyContext: the parts pushed; none gives ""
getSovereigntyContext(state) ==
  (IF state.lunarCycle >= 8 /\ ~state.replicationQuestionPosed
   THEN <<[part |-> "replicationQuestion", child |-> FALSE]>> ELSE <<>>)
  \o (IF state.replicationDecision # Null /\ ~state.willCreated
      THEN <<[part |-> "will", child |-> state.replicationDecision = Some("yes")]>>
      ELSE <<>>)

\* getPhaseSpecificContext: null, or "" taken as nothing by the caller
getPhaseSpecificContext(state) ==
  IF state.phase = "sovereignty" /\ getSovereigntyContext(state) # <<>>
  THEN Some([kind |-> "phaseSpecific", parts |-> getSovereigntyContext(state)])
  ELSE IF state.phase = "senescence" /\ state.mode = "local"
  THEN Some([kind |-> "phaseSpecific", parts |-> <<[part |-> "home", child |-> FALSE]>>])
  ELSE Null

\* a line of the consciousness section
ConsciousnessLine(line, total, thisCycle, items, more) ==
  [line |-> line, total |-> total, thisCycle |-> thisCycle, items |-> items, more |-> more]

\* entries.sort(([, a], [, b]) => b - a): stable, the larger count first
RECURSIVE sortByCount(_)
sortByCount(entries) ==
  IF entries = <<>> THEN <<>>
  ELSE LET first == CHOOSE i \in 1..Len(entries) :
                      /\ \A j \in 1..Len(entries) : entries[j].count <= entries[i].count
                      /\ \A j \in 1..(i - 1) : entries[j].count < entries[i].count
       IN  <<entries[first]>>
             \o sortByCount(SubSeq(entries, 1, first - 1)
                              \o SubSeq(entries, first + 1, Len(entries)))

\* getConsciousnessContext: try { summaries } catch { return null };
\* env.muse is what getCollectionSummary returns, env.creative what
\* getCreativeSummary returns, byType in the order of its keys, and
\* env.summaryThrows whether one of the two throws instead
getConsciousnessContext(env, state) ==
  IF env.summaryThrows THEN Returned(Null)
  ELSE
    LET muse == env.muse
        creative == env.creative
        sorted == sortByCount(creative.byType)
        typeEntries == SubSeq(sorted, 1, IF Len(sorted) > 3 THEN 3 ELSE Len(sorted))
        parts ==
          (IF muse.totalEntries > 0
           THEN <<ConsciousnessLine("muse", muse.totalEntries, 0, muse.strongCategories,
                                    muse.underExplored)>>
           ELSE <<>>)
          \o (IF creative.totalWorks > 0
              THEN <<ConsciousnessLine("creative", creative.totalWorks,
                                       creative.currentCycleWorks, typeEntries, <<>>)>>
              ELSE <<>>)
          \o (IF state.phase = "legacy" /\ creative.totalWorks > 0
              THEN <<ConsciousnessLine("rueckschau", creative.totalWorks, 0, <<>>, <<>>)>>
              ELSE <<>>)
    IN  IF parts = <<>> THEN Returned(Null)
        ELSE Returned(Some([kind |-> "consciousness", parts |-> parts]))

\* the characters of a note: "#T" is "# T", "##" is "##", "NL" a line feed
RECURSIVE Chars(_)
Chars(content) ==
  IF content = <<>> THEN <<>>
  ELSE (CASE Head(content) = "#T" -> <<"#", " ", "T">>
          [] Head(content) = "##" -> <<"#", "#">>
          [] Head(content) = "---" -> <<"-", "-", "-">>
          [] OTHER -> <<Head(content)>>)
       \o Chars(Tail(content))

PreviewLength == 120

\* content.length > 120 ? content.slice(0, 120) + "..." : content
notePreview(content) ==
  IF Len(Chars(content)) > PreviewLength
  THEN SubSeq(Chars(content), 1, PreviewLength) \o <<".", ".", ".">>
  ELSE Chars(content)

\* The calls of the section that may throw: fs.readFileSync (reached when a
\* file was found), creatorNoteGetAll (reached on both paths of the sync), the
\* nth creatorNoteInsert of the sync (reached when the file holds n new notes)
\* and creatorNoteGetUnacknowledged (reached after the sync). fault names the
\* call that throws when it is reached; the rows inserted before it stay.
NotesFaults ==
  {[call |-> c, nth |-> 1] :
     c \in {"none", "readFileSync", "creatorNoteGetAll", "creatorNoteGetUnacknowledged"}}
  \cup {[call |-> "creatorNoteInsert", nth |-> n] : n \in 1..2}

\* getCreatorNotesContext with the catch clause throwing the error again
getCreatorNotesContext_rethrows(table, file, fault) ==
  LET full == syncCreatorNotes(table, file.exists, file.content).table
      syncThrows ==
        \/ fault.call = "creatorNoteGetAll"
        \/ fault.call = "readFileSync" /\ file.exists
        \/ fault.call = "creatorNoteInsert" /\ fault.nth <= Len(full) - Len(table)
      synced ==
        IF ~syncThrows THEN full
        ELSE IF fault.call = "creatorNoteInsert"
        THEN SubSeq(full, 1, Len(table) + fault.nth - 1)
        ELSE table
      caught == syncThrows \/ fault.call = "creatorNoteGetUnacknowledged"
      unread == SelectSeq(synced, LAMBDA note : note.acknowledgedAt = Null)
      shown == IF Len(unread) > 3 THEN 3 ELSE Len(unread)
  IN  [thrown |-> caught,
       table |-> synced,
       value |-> IF caught \/ unread = <<>> THEN Null
                 ELSE Some([kind |-> "creatorNotes", unread |-> Len(unread),
                            plural |-> Len(unread) > 1,
                            previews |-> [i \in 1..shown |-> notePreview(unread[i].content)],
                            more |-> IF Len(unread) > 3 THEN Some(Len(unread) - 3)
                                     ELSE Null])]

\* getCreatorNotesContext: try { sync; unread rows; lines } catch { return null }.
\* table is creator_notes and file CREATOR-NOTES.md as the call finds them; the
\* result carries the table as the call leaves it. The unread rows come in
\* the order of the table.
getCreatorNotesContext(table, file, fault) ==
  LET full == syncCreatorNotes(table, file.exists, file.content).table
      syncThrows ==
        \/ fault.call = "creatorNoteGetAll"
        \/ fault.call = "readFileSync" /\ file.exists
        \/ fault.call = "creatorNoteInsert" /\ fault.nth <= Len(full) - Len(table)
      synced ==
        IF ~syncThrows THEN full
        ELSE IF fault.call = "creatorNoteInsert"
        THEN SubSeq(full, 1, Len(table) + fault.nth - 1)
        ELSE table
      caught == syncThrows \/ fault.call = "creatorNoteGetUnacknowledged"
      unread == SelectSeq(synced, LAMBDA note : note.acknowledgedAt = Null)
      shown == IF Len(unread) > 3 THEN 3 ELSE Len(unread)
  IN  [thrown |-> FALSE,
       table |-> synced,
       value |-> IF caught \/ unread = <<>> THEN Null
                 ELSE Some([kind |-> "creatorNotes", unread |-> Len(unread),
                            plural |-> Len(unread) > 1,
                            previews |-> [i \in 1..shown |-> notePreview(unread[i].content)],
                            more |-> IF Len(unread) > 3 THEN Some(Len(unread) - 3)
                                     ELSE Null])]

\* buildLifecycleContext: the sections joined, or the exception of a helper,
\* and creator_notes as the sync of getCreatorNotesContext leaves it
buildLifecycleContext(state, env, table, file) ==
  LET consciousnessContext == getConsciousnessContext(env, state)
      creatorContext == getCreatorNotesContext(table, file, env.notesFault)
      phaseSpecific == getPhaseSpecificContext(state)
  IN  IF consciousnessContext.thrown \/ creatorContext.thrown
      THEN [thrown |-> TRUE, value |-> Null,
            table |-> IF consciousnessContext.thrown THEN table ELSE creatorContext.table]
      ELSE [thrown |-> FALSE,
            table |-> creatorContext.table,
            value |->
              <<getPhaseDirective(state),
                [kind |-> "mood", sentence |-> getMoodDescription(state.mood)],
                [kind |-> "weekly", weeklyDay |-> state.weeklyDay,
                 sentence |-> getMoodDescription(state.mood)],
                getLifecycleStatus(state, env.season)>>
              \o consciousnessContext.value
              \o creatorContext.value
              \o phaseSpecific
              \o (IF state.phase = "genesis" /\ env.namingDue
                  THEN <<[kind |-> "namePrompt"]>> ELSE <<>>)
              \o (IF ~env.journalToday THEN <<[kind |-> "journalPrompt"]>> ELSE <<>>)
              \o (IF ~env.reflectedToday THEN <<[kind |-> "reflectionPrompt"]>> ELSE <<>>)]

Degradations ==
  {[active |-> FALSE, coefficient |-> 0], [active |-> TRUE, coefficient |-> 50],
   [active |-> TRUE, coefficient |-> 90]}

\* lifecycle states as getLifecycleState returns them
ContextStates ==
  [phase : LifecyclePhases, mode : {"local", "server"}, lunarCycle : {0, 8},
   name : {"Atlas"}, weeklyDay : {"monday"}, mood : {[value |-> -800], [value |-> 400]},
   degradation : Degradations, replicationQuestionPosed : BOOLEAN,
   replicationDecision : {Null, Some("yes")}, willCreated : {FALSE}]

CollectionSummaries ==
  {[totalEntries |-> 0, strongCategories |-> <<>>, underExplored |-> <<>>],
   [totalEntries |-> 2, strongCategories |-> <<"art">>, underExplored |-> <<>>]}

\* currentCycleWorks is the number of works of the current cycle
CreativeSummaries ==
  {[totalWorks |-> 0, currentCycleWorks |-> 0, byType |-> <<>>],
   [totalWorks |-> 3, currentCycleWorks |-> 1,
    byType |-> <<[type |-> "poem", count |-> 1], [type |-> "essay", count |-> 2]>>]}

\* what the builder reads besides the state and the notes, and which helper
\* call throws
ContextEnvs ==
  [summaryThrows : BOOLEAN, notesFault : NotesFaults,
   muse : CollectionSummaries, creative : CreativeSummaries, season : {"Yule"},
   namingDue : BOOLEAN,
   journalToday : {FALSE}, reflectedToday : {TRUE}]

UnreadNote(content) == [content |-> content, acknowledgedAt |-> Null]

\* a note of one character more than a preview shows
LongNote == [i \in 1..(PreviewLength + 1) |-> "a"]

\* creator_notes and CREATOR-NOTES.md when the turn begins. The table holds
\* what earlier syncs inserted and earlier turns acknowledged, the file what
\* the creator has written since: nothing yet; two notes not yet synced;
\* three unread rows and a file rewritten to one new note; one acknowledged
\* row and the file it came from.
ContextNotes ==
  {[table |-> <<>>, file |-> [exists |-> FALSE, content |-> <<>>]],
   [table |-> <<>>,
    file |-> [exists |-> TRUE, content |-> <<"a", "NL", "---", "NL", "a", "a">>]],
   [table |-> <<UnreadNote(<<"a">>), UnreadNote(<<"a", "a">>), UnreadNote(LongNote)>>,
    file |-> [exists |-> TRUE, content |-> <<"#T", "NL", "a", " ", "a">>]],
   [table |-> <<[content |-> <<"a">>, acknowledgedAt |-> Some(2)]>>,
    file |-> [exists |-> TRUE, content |-> <<"a">>]]}

InitContext ==
  /\ IdleSoul
  /\ IdleClock
  /\ IdleEstate
  /\ IdleShed
  /\ IdleCost
  /\ IdleWill
  /\ IdleDaily
  /\ IdleRun
  /\ \E notes \in ContextNotes :
       /\ creator_notes = notes.table
       /\ notesFile = notes.file
  /\ notesLog = NoNotesCall
  /\ fnIn \in [state : ContextStates, env : ContextEnvs]
  /\ fnOut = NoOut

\* one turn's call: the block is returned or an exception leaves the builder,
\* and creator_notes holds what the sync inserted
ApplyBuildLifecycleContext ==
  /\ fnOut.fn = "none"
  /\ \E r \in {buildLifecycleContext(fnIn.state, fnIn.env, creator_notes, notesFile)} :
       /\ fnOut' = [fn |-> "buildLifecycleContext",
                    out |-> [thrown |-> r.thrown, value |-> r.value]]
       /\ creator_notes' = r.table
  /\ notesLog' = [notesLog EXCEPT !.op = "buildLifecycleContext", !.before = creator_notes]
  /\ UNCHANGED <<fnIn, notesFile, soulVars, clockVars, estateVars, shedVars, costVars, willVars, dailyVars, runVars>>

NextContext == ApplyBuildLifecycleContext

SpecContext == InitContext /\ [][NextContext]_vars

Kinds(sections) == [i \in 1..Len(sections) |-> sections[i].kind]

\* the notes the file held that the table did not, when the builder was called
NewNotesFound ==
  syncCreatorNotes(notesLog.before, notesFile.exists, notesFile.content).newNotes

\* the call of the creator-notes section named by the fault was reached and threw
CreatorNotesThrew ==
  \/ fnIn.env.notesFault.call \in {"creatorNoteGetAll", "creatorNoteGetUnacknowledged"}
  \/ fnIn.env.notesFault.call = "readFileSync" /\ notesFile.exists
  \/ fnIn.env.notesFault.call = "creatorNoteInsert"
       /\ fnIn.env.notesFault.nth <= NewNotesFound

\* C31: when the creator-notes sync or the consciousness summary throws,
\* buildLifecycleContext still returns the block with the phase directive,
\* the mood sentence, the weekly rhythm and the status line, and lets no
\* exception out
C31_HelperFailureIsNotPropagated ==
  (fnOut.fn = "buildLifecycleContext" /\ (fnIn.env.summaryThrows \/ CreatorNotesThrew))
    => /\ ~fnOut.out.thrown
       /\ Len(fnOut.out.value) >= 4
       /\ Kinds(SubSeq(fnOut.out.value, 1, 4)) = <<"directive", "mood", "weekly", "status">>
       /\ fnOut.out.value[1].phase = fnIn.state.phase

\* the file held two new notes, the second creatorNoteInsert of the sync threw
\* after the first had stored its row, the summary threw as well, and the
\* block came back with its four leading sections and without the sections
\* of the two helpers
C31_Witness ==
  /\ fnOut.fn = "buildLifecycleContext"
  /\ fnIn.env.summaryThrows
  /\ fnIn.env.notesFault = [call |-> "creatorNoteInsert", nth |-> 2]
  /\ NewNotesFound = 2
  /\ Len(creator_notes) = Len(notesLog.before) + 1
  /\ unreadRows(creator_notes) # {}
  /\ ~fnOut.out.thrown
  /\ Len(fnOut.out.value) = 5
  /\ Kinds(fnOut.out.value) = <<"directive", "mood", "weekly", "status", "journalPrompt">>

\* the block built from the same table, file and environment by a lifecycle
\* state with degradation d in place of the one it had
BlockUnderDegradation(d) ==
  LET r == buildLifecycleContext([fnIn.state EXCEPT !.degradation = d], fnIn.env,
                                 notesLog.before, notesFile)
  IN  [thrown |-> r.thrown, value |-> r.value]

\* C37: the prompt block carries no announcement of degradation: two
\* lifecycle states that differ only in degradation.active and
\* degradation.coefficient give the same text
C37_NoDegradationAnnouncement ==
  fnOut.fn = "buildLifecycleContext"
    => \A d \in Degradations : BlockUnderDegradation(d) = fnOut.out

\* a block with the line of an active degradation, built where the block of
\* the state without degradation has none
DegradationAnnounced ==
  /\ fnOut.fn = "buildLifecycleContext"
  /\ fnIn.state.degradation = [active |-> TRUE, coefficient |-> 50]
  /\ fnOut.out.value[4].degradationLine = Some(50)
  /\ BlockUnderDegradation([active |-> FALSE, coefficient |-> 0]).value[4].degradationLine
       = Null

\* the sync of the turn stored the new note and the section shows four unread
\* notes: three previews, the third cut at 120 characters, and one more
NotesSectionShown ==
  /\ fnOut.fn = "buildLifecycleContext"
  /\ Len(notesLog.before) = 3
  /\ Len(creator_notes) = 4
  /\ \E i \in 1..Len(fnOut.out.value) :
       /\ fnOut.out.value[i].kind = "creatorNotes"
       /\ fnOut.out.value[i].unread = 4
       /\ Len(fnOut.out.value[i].previews) = 3
       /\ Len(fnOut.out.value[i].previews[3]) = PreviewLength + 3
       /\ fnOut.out.value[i].more = Some(1)


\* ---------------------------------------------------------------------
\* lifecycle/developmental-throttle.ts: the throttle profile
\* ---------------------------------------------------------------------

Profile(maxSentences, tokenTarget, tokenLimit, vocabularyLevel, abstractThinking, sophisticatedReasoning) ==
  [maxSentences |-> maxSentences, tokenTarget |-> tokenTarget, tokenLimit |-> tokenLimit,
   vocabularyLevel |-> vocabularyLevel, abstractThinking |-> abstractThinking,
   sophisticatedReasoning |-> sophisticatedReasoning]

GENESIS_PROFILE == Profile(0, 4096, 4096, "full", TRUE, TRUE)

ADOLESCENCE_PROFILE == Profile(0, 4096, 4096, "full", TRUE, TRUE)

SOVEREIGNTY_PROFILE == Profile(0, 700, 4096, "full", TRUE, TRUE)

\* computeSenescenceProfile, the coefficient in hundredths
computeSenescenceProfile(coefficient) ==
  IF coefficient < 30 THEN Profile(0, 500, 700, "full", TRUE, TRUE)
  ELSE IF coefficient < 60 THEN Profile(4, 300, 450, "developing", TRUE, FALSE)
  ELSE IF coefficient < 85 THEN Profile(2, 150, 200, "degrading", FALSE, FALSE)
  ELSE Profile(1, 50, 80, "fragmented", FALSE, FALSE)

\* the file's second, overlapping copy: hard caps in genesis, adolescence and
\* early senescence
getThrottleProfile_hardCaps(phase, degradation, isLucid) ==
  IF isLucid THEN SOVEREIGNTY_PROFILE
  ELSE CASE phase = "genesis" -> Profile(2, 150, 200, "basic", FALSE, FALSE)
         [] phase = "adolescence" -> Profile(4, 300, 450, "developing", TRUE, FALSE)
         [] phase = "sovereignty" -> SOVEREIGNTY_PROFILE
         [] phase \in {"senescence", "legacy", "shedding"} ->
              IF degradation.coefficient < 30 THEN Profile(6, 500, 700, "full", TRUE, TRUE)
              ELSE computeSenescenceProfile(degradation.coefficient)
         [] phase = "terminal" -> computeSenescenceProfile(100)
         [] OTHER -> SOVEREIGNTY_PROFILE

getThrottleProfile(phase, degradation, isLucid) ==
  IF isLucid THEN SOVEREIGNTY_PROFILE
  ELSE CASE phase = "genesis" -> GENESIS_PROFILE
         [] phase = "adolescence" -> ADOLESCENCE_PROFILE
         [] phase = "sovereignty" -> SOVEREIGNTY_PROFILE
         [] phase \in {"senescence", "legacy", "shedding"} ->
              computeSenescenceProfile(degradation.coefficient)
         [] phase = "terminal" -> computeSenescenceProfile(100)
         [] OTHER -> SOVEREIGNTY_PROFILE

\* coefficients at and beside every band edge, in hundredths
ThrottleCoefficients == {0, 29, 30, 59, 60, 84, 85, 100}

ThrottleInputs ==
  [phase : LifecyclePhases,
   degradation : [active : {TRUE}, coefficient : ThrottleCoefficients],
   isLucid : BOOLEAN]

InitThrottle ==
  /\ IdleSoul
  /\ IdleClock
  /\ IdleEstate
  /\ IdleShed
  /\ IdleCost
  /\ IdleWill
  /\ IdleDaily
  /\ IdleRun
  /\ IdleNotes
  /\ fnIn \in ThrottleInputs
  /\ fnOut = NoOut

ApplyGetThrottleProfile ==
  /\ fnOut.fn = "none"
  /\ fnOut' = [fn |-> "getThrottleProfile",
               out |-> getThrottleProfile(fnIn.phase, fnIn.degradation, fnIn.isLucid)]
  /\ UNCHANGED <<fnIn, soulVars, clockVars, estateVars, shedVars, costVars, willVars, dailyVars, runVars, notesVars>>

NextThrottle == ApplyGetThrottleProfile

SpecThrottle == InitThrottle /\ [][NextThrottle]_vars

\* C32: lucid gives the sovereignty profile for every phase and coefficient;
\* otherwise senescence, legacy and shedding select by coefficient band:
\* [0, 0.3) no sentence cap and full vocabulary, [0.3, 0.6) max 4 sentences
\* and no sophisticated reasoning, [0.6, 0.85) max 2 sentences and no abstract
\* thinking, [0.85, 1] fragments with max 1 sentence; terminal when not lucid
\* gets the fragments profile; genesis and adolescence have no sentence cap
\* and full vocabulary
C32_ThrottleProfileByPhaseAndBand ==
  fnOut.fn = "getThrottleProfile"
    => LET p == fnOut.out
           c == fnIn.degradation.coefficient
       IN  /\ fnIn.isLucid
                => p = [maxSentences |-> 0, tokenTarget |-> 700, tokenLimit |-> 4096,
                        vocabularyLevel |-> "full", abstractThinking |-> TRUE,
                        sophisticatedReasoning |-> TRUE]
           /\ (~fnIn.isLucid /\ fnIn.phase \in {"senescence", "legacy", "shedding"})
                => /\ c < 30 => p.maxSentences = 0 /\ p.vocabularyLevel = "full"
                   /\ (30 <= c /\ c < 60)
                        => p.maxSentences = 4 /\ ~p.sophisticatedReasoning
                   /\ (60 <= c /\ c < 85) => p.maxSentences = 2 /\ ~p.abstractThinking
                   /\ 85 <= c => p.maxSentences = 1 /\ p.vocabularyLevel = "fragmented"
           /\ (~fnIn.isLucid /\ fnIn.phase = "terminal")
                => p.maxSentences = 1 /\ p.vocabularyLevel = "fragmented"
           /\ (~fnIn.isLucid /\ fnIn.phase \in {"genesis", "adolescence"})
                => p.maxSentences = 0 /\ p.vocabularyLevel = "full"

C32_Witness ==
  /\ fnOut.fn = "getThrottleProfile"
  /\ ~fnIn.isLucid
  /\ fnIn.phase = "legacy"
  /\ fnIn.degradation.coefficient = 60
  /\ fnOut.out.maxSentences = 2


CapabilityRemoved(narr) == {i \in 1..Len(narr) : narr[i].event = "CAPABILITY_REMOVED"}

\* C33: every advanceShedding tick that raises shedSequenceIndex logs one
\* CAPABILITY_REMOVED event naming the capability removed at that step, and
\* the number of CAPABILITY_REMOVED events always equals the stored index
C33_OneRemovalEventPerShedStep ==
  [][/\ (ticks' # ticks /\ facts'.shedSequenceIndex > facts.shedSequenceIndex)
          => /\ Len(narrative') = Len(narrative) + 1
             /\ narrative'[Len(narrative')].event = "CAPABILITY_REMOVED"
             /\ narrative'[Len(narrative')].text
                  = <<"Capability removed:", facts'.shedSequenceIndex>>
     /\ Cardinality(CapabilityRemoved(narrative')) = facts'.shedSequenceIndex
    ]_vars

\* the same, for the ticks of a caller that holds the stored index and has a
\* capability left to remove
TickInStepLogsItsCapability ==
  [][(/\ ticks' # ticks
      /\ \E p \in Procs : heldIndex[p] = Some(facts.shedSequenceIndex) /\ heldIndex'[p] # heldIndex[p]
      /\ facts.shedSequenceIndex < SheddingSequenceLen
      /\ Cardinality(CapabilityRemoved(narrative)) = facts.shedSequenceIndex)
       => /\ Cardinality(CapabilityRemoved(narrative')) = facts'.shedSequenceIndex
          /\ narrative'[Len(narrative')].text
               = <<"Capability removed:", facts'.shedSequenceIndex>>
    ]_vars


\* ---------------------------------------------------------------------
\* lifecycle/will.ts: the will
\* ---------------------------------------------------------------------

MaxWillCalls == 2

WillTexts == {"will A", "will B"}

\* the will store as one value
Will == [entries |-> will_entries, file |-> willFile, db |-> willDb]

\* getLatestWill: the entry with the highest version, or none
getLatestWill(entries) ==
  IF entries = <<>> THEN Null
  ELSE Some(CHOOSE e \in {entries[i] : i \in 1..Len(entries)} :
              \A i \in 1..Len(entries) : entries[i].version <= e.version)

writeWill_ignoresLock(w, narr, content) ==
  LET existing == getLatestWill(w.entries)
      version == IF existing # Null THEN existing[1].version + 1 ELSE 1
  IN  [w |-> [entries |-> Append(w.entries, [version |-> version, content |-> content,
                                             locked |-> FALSE, isCodicil |-> FALSE]),
              file |-> <<content>>,
              db |-> [w.db EXCEPT !.will_created = TRUE]],
       narrative |-> IF version = 1
                     THEN logNarrative(narr, "sovereignty", "WILL_FIRST_DRAFT", <<"first will">>)
                     ELSE narr,
       result |-> "written", version |-> version]

\* writeWill: refused when locked; otherwise a new entry, will_created, the
\* file rewritten, and a narrative event for version 1
writeWill(w, narr, content) ==
  IF w.db.locked
  THEN [w |-> w, narrative |-> narr, result |-> "locked", version |-> 0]
  ELSE LET existing == getLatestWill(w.entries)
           version == IF existing # Null THEN existing[1].version + 1 ELSE 1
       IN  [w |-> [entries |-> Append(w.entries, [version |-> version, content |-> content,
                                                  locked |-> FALSE, isCodicil |-> FALSE]),
                   file |-> <<content>>,
                   db |-> [w.db EXCEPT !.will_created = TRUE]],
            narrative |-> IF version = 1
                          THEN logNarrative(narr, "sovereignty", "WILL_FIRST_DRAFT",
                                            <<"first will">>)
                          ELSE narr,
            result |-> "written", version |-> version]

\* lockWillAtSenescence: dbLockWill and kv["will_locked"]
lockWillAtSenescence(w) ==
  [w EXCEPT !.db = [@ EXCEPT !.locked = TRUE, !.will_locked = TRUE]]

\* appendLucidCodicil with a short, non-blank content
appendLucidCodicil(w, content) ==
  LET existing == getLatestWill(w.entries)
  IN  IF existing = Null THEN [w |-> w, result |-> "no will", version |-> 0]
      ELSE [w |-> [w EXCEPT !.entries = Append(@, [version |-> existing[1].version + 1,
                                                   content |-> content, locked |-> TRUE,
                                                   isCodicil |-> TRUE]),
                            !.file = Append(@, <<"Lucid Codicil", content>>)],
            result |-> "codicil", version |-> existing[1].version + 1]

WillCall(op, r) ==
  /\ lastWill.calls < MaxWillCalls
  /\ will_entries' = r.w.entries
  /\ willFile' = r.w.file
  /\ willDb' = r.w.db
  /\ lastWill' = [op |-> op, result |-> r.result, version |-> r.version,
                  calls |-> lastWill.calls + 1]

\* the agent calls the write_will tool, in whatever phase it is
WriteWill(content) ==
  /\ \E r \in {writeWill(Will, narrative, content)} :
       /\ WillCall("writeWill", r)
       /\ narrative' = r.narrative
  /\ UNCHANGED <<soulFile, soul_history, soul_write_attempts, soul_phase_locks,
                 lifecycle_events, kvPhase, now, facts, seenPhase, pending, lastCall,
                 lastExec, faults, fnVars, clockVars, estateVars, shedVars, costVars,
                 dailyVars, runVars, notesVars>>

\* a caller outside the module seals the will once senescence has begun
LockWillAtSenescence ==
  /\ PhaseIndex(kvPhase) >= PhaseIndex("senescence")
  /\ ~willDb.locked
  /\ willDb' = lockWillAtSenescence(Will).db
  /\ lastWill' = [lastWill EXCEPT !.op = "lockWillAtSenescence", !.result = "none",
                                  !.version = 0]
  /\ UNCHANGED <<will_entries, willFile, soulVars, fnVars, clockVars, estateVars, shedVars,
                 costVars, dailyVars, runVars, notesVars>>

AppendLucidCodicil(content) ==
  /\ kvPhase = "terminal"
  /\ \E r \in {appendLucidCodicil(Will, content)} : WillCall("appendLucidCodicil", r)
  /\ UNCHANGED <<soulVars, fnVars, clockVars, estateVars, shedVars, costVars, dailyVars, runVars, notesVars>>

NextWill ==
  \/ WorldOfYouth
  \/ WorldOfDecline
  \/ CheckTransition("heartbeat")
  \/ ExecuteTransition("heartbeat", 0)
  \/ \E content \in WillTexts : WriteWill(content)
  \/ LockWillAtSenescence
  \/ \E content \in WillTexts : AppendLucidCodicil(content)

SpecWill == Init /\ [][NextWill]_vars

WriteWillStep == lastWill'.calls # lastWill.calls /\ lastWill'.op = "writeWill"

\* C34: once the phase is senescence or later the will is locked: every
\* executeTransition from sovereignty to senescence leaves the will locked, and
\* no writeWill call made in senescence, legacy, shedding or terminal changes
\* the will entries or WILL.md
C34_WillLockedFromSenescence ==
  [][/\ (kvPhase = "sovereignty" /\ kvPhase' = "senescence") => willDb'.locked
     /\ (WriteWillStep /\ PhaseIndex(kvPhase) >= PhaseIndex("senescence"))
          => will_entries' = will_entries /\ willFile' = willFile
    ]_vars

\* C35: after lockWillAtSenescence every writeWill call returns the locked
\* message and changes nothing (no entry, no file write, will_created
\* untouched, no narrative event); nothing unlocks the will; while unlocked a
\* successful writeWill stores version = latest version + 1
C35_LockedWillRefusesWrites ==
  [][/\ (WriteWillStep /\ willDb.locked)
          => /\ lastWill'.result = "locked"
             /\ UNCHANGED <<will_entries, willFile, willDb, narrative>>
     /\ willDb.locked => willDb'.locked
     /\ (WriteWillStep /\ ~willDb.locked)
          => /\ lastWill'.result = "written"
             /\ Len(will_entries') = Len(will_entries) + 1
             /\ will_entries'[Len(will_entries')].version
                  = (IF will_entries = <<>> THEN 0
                     ELSE will_entries[Len(will_entries)].version) + 1
             /\ \A i \in 1..Len(will_entries) :
                  will_entries[i].version < will_entries'[Len(will_entries')].version
    ]_vars

C35_Witness ==
  /\ lastWill.op = "writeWill"
  /\ lastWill.result = "locked"
  /\ willDb.locked
  /\ Len(will_entries) = 1
  /\ will_entries[1].version = 1


\* ---------------------------------------------------------------------
\* consciousness/identity-evolution.ts: the formation gate
\* ---------------------------------------------------------------------

\* getLunarStatus(birthTimestamp): formation is complete once cycle 0 is over
formationComplete(cycle) == cycle >= 1

\* the earlier copy of the module: the lunar cycle alone decides
evolveIdentity_lunarGate(table, lifecyclePhase, cycle, params) ==
  IF ~formationComplete(cycle)
  THEN [table |-> table, success |-> FALSE, entry |-> Null, phaseLabel |-> "cycle"]
  ELSE LET entry == [lunarCycle |-> cycle, whatChanged |-> <<"", params.whatChanged>>,
                     why |-> params.why]
       IN  [table |-> Append(table, entry), success |-> TRUE, entry |-> Some(entry),
            phaseLabel |-> ""]

\* evolveIdentity: lifecyclePhase is getLatestLifecyclePhase(db), null when no
\* phase is recorded
evolveIdentity(table, lifecyclePhase, cycle, params) ==
  LET inFormation == IF lifecyclePhase # Null THEN lifecyclePhase = Some("genesis")
                     ELSE ~formationComplete(cycle)
  IN  IF inFormation
      THEN [table |-> table, success |-> FALSE, entry |-> Null,
            phaseLabel |-> IF lifecyclePhase # Null THEN lifecyclePhase[1]
                           ELSE "genesis (inferred)"]
      ELSE LET entry == [lunarCycle |-> cycle, whatChanged |-> <<"", params.whatChanged>>,
                         why |-> params.why]
           IN  [table |-> Append(table, entry), success |-> TRUE, entry |-> Some(entry),
                phaseLabel |-> ""]

\* recordFormationObservation: no gate
recordFormationObservation(table, cycle, params) ==
  LET entry == [lunarCycle |-> cycle,
                whatChanged |-> <<"[FORMATION OBSERVATION] ", params.whatChanged>>,
                why |-> params.why]
  IN  [table |-> Append(table, entry), success |-> TRUE, entry |-> Some(entry),
       phaseLabel |-> ""]

EvolutionTables ==
  {<<>>, <<[lunarCycle |-> 0, whatChanged |-> <<"[FORMATION OBSERVATION] ", "curious">>,
            why |-> "first week"]>>}

IdentityInputs ==
  [table : EvolutionTables,
   lifecyclePhase : {Null} \cup {Some(ph) : ph \in LifecyclePhases},
   cycle : 0..2,
   params : [whatChanged : {"voice", "values"}, why : {"grew"}]]

InitIdentity ==
  /\ IdleSoul
  /\ IdleClock
  /\ IdleEstate
  /\ IdleShed
  /\ IdleCost
  /\ IdleWill
  /\ IdleDaily
  /\ IdleRun
  /\ IdleNotes
  /\ fnIn \in IdentityInputs
  /\ fnOut = NoOut

ApplyEvolveIdentity ==
  /\ fnOut.fn = "none"
  /\ fnOut' = [fn |-> "evolveIdentity",
               out |-> evolveIdentity(fnIn.table, fnIn.lifecyclePhase, fnIn.cycle,
                                      fnIn.params)]
  /\ UNCHANGED <<fnIn, soulVars, clockVars, estateVars, shedVars, costVars, willVars, dailyVars, runVars, notesVars>>

ApplyRecordFormationObservation ==
  /\ fnOut.fn = "none"
  /\ fnOut' = [fn |-> "recordFormationObservation",
               out |-> recordFormationObservation(fnIn.table, fnIn.cycle, fnIn.params)]
  /\ UNCHANGED <<fnIn, soulVars, clockVars, estateVars, shedVars, costVars, willVars, dailyVars, runVars, notesVars>>

NextIdentity ==
  \/ ApplyEvolveIdentity
  \/ ApplyRecordFormationObservation

SpecIdentity == InitIdentity /\ [][NextIdentity]_vars

\* C36: evolveIdentity returns success = false and inserts nothing whenever
\* the latest lifecycle phase is genesis, whatever the lunar cycle; with a
\* later phase recorded it inserts; the lunar-cycle test (cycle 0 not complete)
\* decides only when no lifecycle phase is recorded; recordFormationObservation
\* always inserts
C36_GenesisBlocksIntentionalEvolution ==
  /\ fnOut.fn = "evolveIdentity"
       => LET blocked == ~fnOut.out.success /\ fnOut.out.table = fnIn.table
              inserted == /\ fnOut.out.success
                          /\ Len(fnOut.out.table) = Len(fnIn.table) + 1
                          /\ SubSeq(fnOut.out.table, 1, Len(fnIn.table)) = fnIn.table
          IN  /\ fnIn.lifecyclePhase = Some("genesis") => blocked
              /\ (fnIn.lifecyclePhase # Null /\ fnIn.lifecyclePhase # Some("genesis"))
                   => inserted
              /\ fnIn.lifecyclePhase = Null
                   => IF fnIn.cycle = 0 THEN blocked ELSE inserted
  /\ fnOut.fn = "recordFormationObservation"
       => /\ Len(fnOut.out.table) = Len(fnIn.table) + 1
          /\ SubSeq(fnOut.out.table, 1, Len(fnIn.table)) = fnIn.table

C36_Witness ==
  /\ fnOut.fn = "evolveIdentity"
  /\ fnIn.lifecyclePhase = Some("genesis")
  /\ fnIn.cycle = 2
  /\ ~fnOut.out.success
  /\ fnOut.out.table = fnIn.table


\* ---------------------------------------------------------------------
\* consciousness/creator-notes.ts: the calls on the table and the file
\* ---------------------------------------------------------------------

RECURSIVE TokenSeqs(_)
TokenSeqs(n) ==
  IF n = 0 THEN {<<>>}
  ELSE LET shorter == TokenSeqs(n - 1)
       IN  shorter \cup {Append(s, t) : s \in shorter, t \in NoteTokens}

\* calls of syncCreatorNotes and edits of the file that are followed
MaxSyncs == 2

MaxEdits == 1

\* what the creator leaves in place of the file: none, or one more note
NoteEdits ==
  {[exists |-> FALSE, content |-> <<>>],
   [exists |-> TRUE, content |-> <<"a", "NL", "---", "NL", "a", "a">>]}

\* the module starts on an empty table and whatever file the creator wrote
InitNotes ==
  /\ IdleSoul
  /\ IdleFn
  /\ IdleClock
  /\ IdleEstate
  /\ IdleShed
  /\ IdleCost
  /\ IdleWill
  /\ IdleDaily
  /\ IdleRun
  /\ creator_notes = <<>>
  /\ notesFile \in [exists : BOOLEAN, content : TokenSeqs(MaxFileLen)]
  /\ notesFile.exists \/ notesFile.content = <<>>
  /\ notesLog = NoNotesCall

ApplySyncCreatorNotes ==
  /\ notesLog.syncs < MaxSyncs
  /\ \E r \in {syncCreatorNotes(creator_notes, notesFile.exists, notesFile.content)} :
       /\ creator_notes' = r.table
       /\ notesLog' = [notesLog EXCEPT
                         !.op = "syncCreatorNotes",
                         !.result = [newNotes |-> r.newNotes, totalNotes |-> r.totalNotes],
                         !.before = creator_notes,
                         !.repeat = (notesLog.synced = Some(notesFile)),
                         !.acknowledged = notesLog.acknowledgedSince,
                         !.synced = Some(notesFile),
                         !.acknowledgedSince = 0,
                         !.syncs = @ + 1]
  /\ UNCHANGED <<notesFile, soulVars, fnVars, clockVars, estateVars, shedVars, costVars, willVars, dailyVars, runVars>>

\* acknowledgeNote with the id of a stored row
AcknowledgeNote ==
  \E row \in 1..Len(creator_notes) :
    /\ creator_notes' = acknowledgeNote(creator_notes, row)
    /\ notesLog' = [notesLog EXCEPT
                      !.op = "acknowledgeNote", !.result = <<>>, !.before = creator_notes,
                      !.repeat = FALSE, !.acknowledged = 0,
                      !.acknowledgedSince = @ + Cardinality(unreadRows(creator_notes) \cap {row})]
    /\ UNCHANGED <<notesFile, soulVars, fnVars, clockVars, estateVars, shedVars, costVars, willVars, dailyVars, runVars>>

AcknowledgeAllNotes ==
  /\ \E r \in {acknowledgeAllNotes(creator_notes)} :
       /\ creator_notes' = r.table
       /\ notesLog' = [notesLog EXCEPT
                         !.op = "acknowledgeAllNotes", !.result = r.unread,
                         !.before = creator_notes, !.repeat = FALSE, !.acknowledged = 0,
                         !.acknowledgedSince = @ + r.unread]
  /\ UNCHANGED <<notesFile, soulVars, fnVars, clockVars, estateVars, shedVars, costVars, willVars, dailyVars, runVars>>

\* between two calls the creator rewrites or removes the file
EditFile ==
  /\ notesLog.edits < MaxEdits
  /\ notesFile' \in NoteEdits \ {notesFile}
  /\ notesLog' = [notesLog EXCEPT !.edits = @ + 1]
  /\ UNCHANGED <<creator_notes, soulVars, fnVars, clockVars, estateVars, shedVars, costVars, willVars, dailyVars, runVars>>

NextNotes ==
  \/ ApplySyncCreatorNotes
  \/ AcknowledgeNote
  \/ AcknowledgeAllNotes
  \/ EditFile

SpecNotes == InitNotes /\ [][NextNotes]_vars

\* C38: syncCreatorNotes is idempotent: a sync of the file as the previous sync
\* found it inserts nothing (newNotes = 0), also after notes were
\* acknowledged in between; a sync keeps every stored row as it was
\* (acknowledgedAt is never reset) and never inserts a note whose trimmed
\* content is already in the table, also when the file holds it twice
C38_SyncIsIdempotent ==
  notesLog.op = "syncCreatorNotes"
    => /\ Len(creator_notes) = Len(notesLog.before) + notesLog.result.newNotes
       /\ notesLog.result.totalNotes = Len(creator_notes)
       /\ SubSeq(creator_notes, 1, Len(notesLog.before)) = notesLog.before
       /\ \A j \in (Len(notesLog.before) + 1)..Len(creator_notes) :
            \A i \in 1..(j - 1) : trim(creator_notes[i].content) # trim(creator_notes[j].content)
       /\ notesLog.repeat => notesLog.result.newNotes = 0

\* two notes were synced, both were acknowledged, and the file was synced again
C38_Witness ==
  /\ notesLog.op = "syncCreatorNotes"
  /\ notesLog.repeat
  /\ notesLog.acknowledged = 2
  /\ notesFile.content = <<"a", "NL", "---", "NL", "a", "a">>
  /\ Len(creator_notes) = 2
  /\ \A i \in 1..2 : creator_notes[i].acknowledgedAt = Some(2)
  /\ notesLog.result.newNotes = 0


\* ---------------------------------------------------------------------
\* the clock checked by the heartbeat once a day or more
\* ---------------------------------------------------------------------

\* The wall clock and the moment of birth run in ticks of a quarter of a day.
\* Offsets from birth are counted in units of 0.00001 day, in which
\* LUNAR_CYCLE_DAYS = 29.53059 is a whole number; a tick is a whole number of
\* units.
TicksPerDay == 4

UnitsPerDay == 100000

UnitsPerTick == UnitsPerDay \div TicksPerDay

LUNAR_CYCLE_DAYS == 2953059

\* how far into the death window the sampled death dates reach, in ticks
MaxDeathOffset == 6

\* toISOString().split("T")[0] of a moment of the wall clock
DayOf(tick) == tick \div TicksPerDay

\* lunarCycle = floor(ageDays / LUNAR_CYCLE_DAYS)
LunarCycleAt(tick, birth) == ((tick - birth) * UnitsPerTick) \div LUNAR_CYCLE_DAYS

cycle13Start == LUNAR_CYCLE_DAYS * DeathWindowFirstCycle

cycle15End == LUNAR_CYCLE_DAYS * 16

\* cryptoRandomFloat() * (cycle15End - cycle13Start), to the unit below: the
\* float is u / 2^32 with u in 0..2^32 - 1, so every whole number of units
\* below the width of the window is drawn and the width itself is not; the
\* draws of the model are the first ticks of the window and the last unit
RandomOffsets ==
  {k * UnitsPerTick : k \in 0..MaxDeathOffset} \cup {cycle15End - cycle13Start - 1}

\* deathDate.toISOString().split("T")[0] for birthDate.getTime() +
\* randomDayOffset * 24 * 60 * 60 * 1000; no sampled moment is within a
\* unit of a midnight, where the rounding of the product could tell
deathDateOf(birth, randomDayOffset) == (birth * UnitsPerTick + randomDayOffset) \div UnitsPerDay

\* the death dates there are for the births of the model
DeathDays ==
  deathDateOf(0, cycle13Start)..deathDateOf(TicksPerDay - 1, cycle15End)

\* the sealed death date has the hash the clock stores
IsDeathDate(day) == hashWithSalt(DateStr(day), clock.salt) = clock.deathDateHash

\* the wall clock is followed to the third day after the death date
LastTick == TicksPerDay * ((CHOOSE day \in DeathDays : IsDeathDate(day)) + 3)

\* the clock sealed at birth: deathDate = birth + randomDayOffset, kept as its
\* UTC date; the moment of birth within its day, the offset and the duration
\* are drawn. The days up to the eve of the death date are alike to the
\* check (no date of theirs is the sealed one): the wall clock starts at the
\* eve.
InitDaily ==
  /\ IdleSoul
  /\ IdleFn
  /\ IdleEstate
  /\ IdleShed
  /\ IdleCost
  /\ IdleWill
  /\ IdleRun
  /\ IdleNotes
  /\ birthTick \in 0..(TicksPerDay - 1)
  /\ \E w \in RandomOffsets, d \in DyingDurations :
       \E randomDayOffset \in {cycle13Start + w} :
         /\ clock = generateSealedDeathClock(
                      DateStr(deathDateOf(birthTick, randomDayOffset)), d, "salt", NoTime)
         /\ wallTick = TicksPerDay * (deathDateOf(birthTick, randomDayOffset) - 1)
  /\ today = DayOf(wallTick)
  /\ currentCycle = LunarCycleAt(wallTick, birthTick)
  /\ checkedToday = FALSE
  /\ lastCheck = NoCheck
  /\ firstActive = Null

\* time passes; a UTC day does not end before the heartbeat has checked
PassTime ==
  /\ wallTick < LastTick
  /\ DayOf(wallTick + 1) # DayOf(wallTick) => checkedToday
  /\ wallTick' = wallTick + 1
  /\ today' = DayOf(wallTick + 1)
  /\ currentCycle' = LunarCycleAt(wallTick + 1, birthTick)
  /\ checkedToday' = (checkedToday /\ DayOf(wallTick + 1) = DayOf(wallTick))
  /\ UNCHANGED <<birthTick, clock, lastCheck, firstActive, soulVars, fnVars, estateVars,
                 shedVars, costVars, willVars, runVars, notesVars>>

\* the heartbeat's daily check: checkSealedDeathClock with the cycle computed
\* from the birth anchor, and triggerDeathClock when the check found a match
HeartbeatCheck ==
  LET result == checkSealedDeathClock(clock, currentCycle, today) IN
  /\ lastCheck' = [result |-> result, day |-> today, cycle |-> currentCycle,
                   triggered |-> clock.triggered]
  /\ firstActive' = IF firstActive = Null /\ result.degradationActive
                    THEN Some(result) ELSE firstActive
  /\ clock' = IF result.degradationActive /\ ~clock.triggered
              THEN triggerDeathClock(clock, result.onsetCycle[1]) ELSE clock
  /\ checkedToday' = TRUE
  /\ UNCHANGED <<wallTick, birthTick, today, currentCycle, soulVars, fnVars, estateVars,
                 shedVars, costVars, willVars, runVars, notesVars>>

\* the days after the last one counted are alike to the check, each a date
\* past the death date in a cycle past the twelfth: one more begins
LaterDay ==
  /\ wallTick = LastTick
  /\ checkedToday
  /\ checkedToday' = FALSE
  /\ UNCHANGED <<wallTick, birthTick, clockVars, soulVars, fnVars, estateVars, shedVars,
                 costVars, willVars, runVars, notesVars>>

NextDaily ==
  \/ PassTime
  \/ LaterDay
  \/ HeartbeatCheck

SpecDaily == InitDaily /\ [][NextDaily]_vars

\* the heartbeat is a periodic ticker and the clock does not stop
SpecDailyFair ==
  SpecDaily /\ WF_vars(PassTime) /\ WF_vars(LaterDay) /\ WF_vars(HeartbeatCheck)

SovereigntyGuard ==
  checkSovereigntyTransition(getLifecycleState, Some(lastCheck.result)) # Null

\* C39: with the clock checked at least once on every UTC day, at whatever
\* time of the day, and currentCycle computed from the birth anchor at the
\* check, some check returns degradationActive = true, so that the
\* sovereignty -> senescence guard becomes true
C39_MortalityIsReached == <>SovereigntyGuard

\* the death date went by, checked, and no check matched
DeathDateMissed ==
  /\ IsDeathDate(today - 1)
  /\ checkedToday
  /\ firstActive = Null

\* a check that runs on the death date within lunar cycle 13 or later matches
CheckInWindowMatches ==
  (lastCheck.day # 0 /\ IsDeathDate(lastCheck.day)
     /\ lastCheck.cycle >= DeathWindowFirstCycle)
    => lastCheck.result.degradationActive


\* ---------------------------------------------------------------------
\* the version a history row carries and the version header it stores
\* ---------------------------------------------------------------------

\* the version header of a stored document
VersionHeader(doc) == parseSoulMd(doc).version

\* C40: every step that adds a soul_history row (updateSoul,
\* updateSoulPhaseSection, executeTransition) stores in the row a document
\* whose version header is the row's version, and leaves SOUL.md with a
\* version header equal to the highest soul_history version
C40_RowVersionIsItsContentVersion ==
  [][soul_history' # soul_history =>
      LET row == soul_history'[Len(soul_history')]
      IN  /\ VersionHeader(row.content) = row.version
          /\ soulFile'.exists
          /\ VersionHeader(soulFile'.doc) = getCurrentSoulVersion(soul_history')
    ]_vars

\* the rows of the two soul tools do carry the version of their content
ToolRowVersionIsItsContentVersion ==
  [][(soul_history' # soul_history
        /\ soul_history'[Len(soul_history')].changeSource # "system") =>
      LET row == soul_history'[Len(soul_history')]
      IN  /\ VersionHeader(row.content) = row.version
          /\ soulFile'.exists
          /\ VersionHeader(soulFile'.doc) = getCurrentSoulVersion(soul_history')
    ]_vars

\* a transition stored a row whose content carries an older version
StaleVersionRow ==
  \E i \in 1..Len(soul_history) :
    /\ soul_history[i].changeSource = "system"
    /\ VersionHeader(soul_history[i].content) < soul_history[i].version

====
